---- MODULE Spec2Model ----
(***************************************************************************)
(* The authentication / session core of the contacts REST service:        *)
(* registration, e-mail confirmation, login, refresh-token rotation,      *)
(* password reset and the cache-aside resolution of a bearer token        *)
(* (get_current_user).  Handlers are split at the awaits that separate a  *)
(* read of the user directory or of the cache from the write that follows *)
(* it, so that requests interleave where the event loop lets them.        *)
(***************************************************************************)
EXTENDS Integers, FiniteSets, Sequences, TLC

(* ------------------------------ bounds -------------------------------- *)
\* number of clock advances explored
MaxTicks == 2
\* number of rows the users table may hold
MaxUsers == 1
\* strings used both as usernames and as e-mail addresses (UserCreate
\* declares both as plain str)
Names == {"a", "b"}
Passwords == {"p", "q"}
\* request slots: concurrently running requests
Workers == {1, 2}

(* ------------------------- settings (config.py) ----------------------- *)
JWT_EXPIRATION_SECONDS == 3600
JWT_REFRESH_EXPIRATION_SECONDS == 60 * 24 * 7
REDIS_TTL == 3600
\* timedelta(days=7) of create_email_token, in seconds
EMAIL_TOKEN_SECONDS == 7 * 24 * 60 * 60

\* the clock advances by one second or by the longer configured lifetime
TickSteps == {1, JWT_REFRESH_EXPIRATION_SECONDS}

VARIABLES
    users,       \* the users table: a sequence of rows, id = position
    cache,       \* Redis: key user:<name> -> {} or {[value, expires_at]}
    now,         \* wall clock, whole seconds (the resolution of a JWT exp)
    ticks,       \* number of clock advances so far
    req,         \* per request slot: idle, in flight (pc, locals) or the response
    lastIssued,  \* history, read by no handler: username -> the refresh
                 \* token create_refresh_token made last for it
    contacts,    \* the contact table: a set of rows
    contact_id_seq,          \* the last id the contact table has handed out
    redis_client,            \* src.redis.redis_client: None or a client
    app_state_redis_client,  \* app.state.redis_client: unset or a client
    clients      \* the clients redis.from_url has made: per client, the
                 \* number of times it was closed

\* the contact table and its id sequence
contactVars == <<contacts, contact_id_seq>>

\* the Redis client of the process
redisVars == <<redis_client, app_state_redis_client, clients>>

vars == <<users, cache, now, ticks, req, lastIssued, contactVars, redisVars>>

\* None, and an unset attribute
None == 0

(* ------------------------------ passwords ----------------------------- *)
\* Hash.get_password_hash: a bcrypt digest of the password (salt left out)
get_password_hash(password) == <<"bcrypt", password>>

\* Hash.verify_password, when it returns
verify_password(plain_password, hashed_password) ==
    hashed_password = get_password_hash(plain_password)

\* a password of more than the 4096 characters that passlib accepts
Oversized == "oversized"

\* Hash.verify_password, when it raises instead: CryptContext.verify
\* rejects such a secret with PasswordSizeError before it compares
verify_password_raises(plain_password, hashed_password) ==
    plain_password = Oversized

\* the passwords a client sends to /login
LoginPasswords == Passwords \cup {Oversized}

(* -------------------------------- tokens ------------------------------ *)
\* create_token: claims sub, exp = now + expires_delta (whole seconds) and
\* token_type, signed with JWT_SECRET.  Encoding is deterministic: equal
\* claims give the equal token string.
create_token(sub, token_type, expires_delta) ==
    [sub |-> sub, exp |-> now + expires_delta, token_type |-> token_type,
     signed |-> TRUE]

create_access_token(sub) == create_token(sub, "access", JWT_EXPIRATION_SECONDS)

create_refresh_token(sub) ==
    create_token(sub, "refresh", JWT_REFRESH_EXPIRATION_SECONDS)

\* create_email_token: claims sub, iat and exp, no token_type
create_email_token(sub) ==
    [sub |-> sub, iat |-> now, exp |-> now + EMAIL_TOKEN_SECONDS, signed |-> TRUE]

\* a string that is no JWT signed with JWT_SECRET
Malformed == [signed |-> FALSE]

\* the token create_email_token made one second more than its lifetime ago
ExpiredEmailToken(sub) ==
    [sub |-> sub, iat |-> now - EMAIL_TOKEN_SECONDS - 1, exp |-> now - 1,
     signed |-> TRUE]

\* jwt.decode: the payload, as a set of at most one element; empty stands
\* for JWTError (bad signature, malformed, or exp < now)
jwt_decode(token) ==
    IF token.signed /\ ~(token.exp < now) THEN {token} ELSE {}

\* payload.get("token_type")
PayloadTokenType(payload) ==
    IF "token_type" \in DOMAIN payload THEN payload.token_type ELSE "None"

(* ------------------------------ directory ----------------------------- *)
UserIds == DOMAIN users

\* get_user_by_username without the refresh_token filter
get_user_by_username_AnyToken(username, refresh_token) ==
    {i \in UserIds : users[i].username = username}

\* UserRepository.get_user_by_username: ids of the rows that match; the
\* refresh_token filter applies only when a token is given
get_user_by_username(username, refresh_token) ==
    {i \in UserIds :
        /\ users[i].username = username
        /\ (refresh_token # {} => users[i].refresh_token = refresh_token)}

\* UserRepository.get_user_by_email
get_user_by_email(email) == {i \in UserIds : users[i].email = email}

\* the one element of a singleton set
TheOne(S) == CHOOSE x \in S : TRUE

(* ------------------------------ responses ----------------------------- *)
Idle == [pc |-> "idle"]

\* an HTTPException
Fail(op, input, status, detail, www) ==
    [pc |-> "done", op |-> op, input |-> input, status |-> status,
     detail |-> detail, www_authenticate |-> www]

\* a successful response
Ok(op, input, status, body) ==
    [pc |-> "done", op |-> op, input |-> input, status |-> status, body |-> body]

\* a successful response with the tasks the handler added to its
\* BackgroundTasks, which run after the response is sent
OkTasks(op, input, status, body, tasks) ==
    [pc |-> "done", op |-> op, input |-> input, status |-> status, body |-> body,
     tasks |-> tasks]

CanStart(p) == req[p].pc \in {"idle", "done"}

\* the lifespan has run init_redis: one client, pinged, stored in the module
\* and in app.state
Serving ==
    /\ redis_client = 1
    /\ app_state_redis_client = 1
    /\ clients = <<[closed |-> 0]>>

Init ==
    /\ users = <<>>
    /\ cache = [n \in Names |-> {}]
    /\ now = 0
    /\ ticks = 0
    /\ req = [p \in Workers |-> Idle]
    /\ lastIssued = [n \in Names |-> {}]
    /\ contacts = {}
    /\ contact_id_seq = 0
    /\ Serving

(* ------------------------------- the clock ---------------------------- *)
\* Redis drops a key once its ex seconds have elapsed
Tick(d) ==
    /\ ticks < MaxTicks
    /\ ticks' = ticks + 1
    /\ now' = now + d
    /\ cache' = [n \in Names |-> {e \in cache[n] : e.expires_at > now + d}]
    /\ UNCHANGED <<users, req, lastIssued, contactVars, redisVars>>

(* ------------------------------ registration -------------------------- *)
\* schemas.User, the response_model of /register
UserResponse(u) ==
    [id |-> u.id, username |-> u.username, email |-> u.email, avatar |-> u.avatar]

\* check_user_exists: the 409 raised, if any; the e-mail is looked up first
check_user_exists(email, username) ==
    IF get_user_by_email(email) # {}
    THEN {"A user with this email already exists."}
    ELSE IF get_user_by_username(username, {}) # {}
    THEN {"A user with this username already exists."}
    ELSE {}

\* POST /auth/register up to the commit: check_user_exists, then hash the
\* password
register_user(p, username, email, password) ==
    /\ CanStart(p)
    /\ Len(users) < MaxUsers \/ check_user_exists(email, username) # {}
    /\ LET input == [username |-> username, email |-> email]
           conflict == check_user_exists(email, username)
       IN  IF conflict # {}
           THEN req' = [req EXCEPT ![p] =
                            Fail("register", input, 409, TheOne(conflict), FALSE)]
           ELSE req' = [req EXCEPT ![p] =
                            [pc |-> "register_commit", op |-> "register",
                             input |-> input,
                             hashed_password |-> get_password_hash(password)]]
    /\ UNCHANGED <<users, cache, now, ticks, lastIssued, contactVars, redisVars>>

\* the row that UserRepository.create_user adds
NewUser(id, input, hashed_password) ==
    [id |-> id,
     username |-> input.username,
     email |-> input.email,
     hashed_password |-> hashed_password,
     refresh_token |-> {},
     confirmed |-> FALSE,
     avatar |-> <<"gravatar", input.email>>,
     role |-> "USER"]

\* the unique constraints on users.username and users.email refuse the row
ViolatesUnique(input) ==
    \E i \in UserIds : users[i].username = input.username
                       \/ users[i].email = input.email

\* POST /auth/register from the commit of create_user on: the insert fails
\* with IntegrityError, which no handler catches, when a row with the
\* username or the e-mail was committed since the check; else the row is
\* added and the confirmation mail is scheduled
register_commit(p) ==
    /\ req[p].pc = "register_commit"
    /\ Len(users) < MaxUsers \/ ViolatesUnique(req[p].input)
    /\ LET input == req[p].input
           new_user == NewUser(Len(users) + 1, input, req[p].hashed_password)
       IN  IF ViolatesUnique(input)
           THEN /\ req' = [req EXCEPT ![p] = Fail("register", input, 500,
                               "Internal Server Error", FALSE)]
                /\ UNCHANGED users
           ELSE /\ users' = Append(users, new_user)
                /\ req' = [req EXCEPT ![p] =
                               OkTasks("register", input, 201, UserResponse(new_user),
                                       <<[task |-> "send_email",
                                          email |-> new_user.email,
                                          username |-> new_user.username]>>)]
    /\ UNCHANGED <<cache, now, ticks, lastIssued, contactVars, redisVars>>

(* ------------------------- e-mail action tokens ----------------------- *)
\* a decode that verifies the signature and not the expiry
get_email_from_token_NoExpiry(token) == IF token.signed THEN {token.sub} ELSE {}

\* the e-mail action tokens the slots show as consumed with success
Consumed ==
    {req[p].input :
        p \in {q \in Workers : /\ req[q].pc = "done"
                                /\ req[q].op \in {"reset_password", "confirm_email"}
                                /\ req[q].status = 200}}

\* a decode that refuses a token that was consumed before
get_email_from_token_SingleUse(token) ==
    IF token \in Consumed THEN {} ELSE {payload.sub : payload \in jwt_decode(token)}

\* get_email_from_token: payload["sub"] of any token that decodes; the
\* token_type claim is not looked at.  Empty stands for the 422 it raises.
get_email_from_token(token) == {payload.sub : payload \in jwt_decode(token)}

\* send_email: token_verification = create_email_token(data={"sub": email})
send_email_token(email) == create_email_token(email)

\* a confirmation that is never written
UserRepository_confirmed_email_Unwritten(email) == users

\* UserRepository.confirmed_email: the table after user.confirmed = True
UserRepository_confirmed_email(email) ==
    [users EXCEPT ![TheOne(get_user_by_email(email))].confirmed = TRUE]

\* GET /auth/confirm-email/{token}
confirmed_email(p, token) ==
    /\ CanStart(p)
    /\ LET email == get_email_from_token(token)
           user == IF email = {} THEN {} ELSE get_user_by_email(TheOne(email))
       IN  IF email = {}
           THEN /\ req' = [req EXCEPT ![p] = Fail("confirm_email", token, 422,
                               "Invalid token for email verification", FALSE)]
                /\ UNCHANGED users
           ELSE IF user = {}
           THEN /\ req' = [req EXCEPT ![p] = Fail("confirm_email", token, 400,
                               "Verification error", FALSE)]
                /\ UNCHANGED users
           ELSE IF users[TheOne(user)].confirmed
           THEN /\ req' = [req EXCEPT ![p] = Ok("confirm_email", token, 200,
                               [message |-> "Email already confirmed"])]
                /\ UNCHANGED users
           ELSE /\ users' = UserRepository_confirmed_email(TheOne(email))
                /\ req' = [req EXCEPT ![p] = Ok("confirm_email", token, 200,
                               [message |-> "Email confirmed successfully"])]
    /\ UNCHANGED <<cache, now, ticks, lastIssued, contactVars, redisVars>>

\* a response that echoes the generated password
ResetResponse_WithPassword(email, new_password) ==
    [message |-> "Token is valid. Proceed with password reset.", email |-> email,
     new_password |-> new_password]

\* the dict validate_reset_token returns
ResetResponse(email, new_password) ==
    [message |-> "Token is valid. Proceed with password reset.", email |-> email]

\* a password update that also clears the stored refresh token
update_password_Revoking(email, hashed_password) ==
    [users EXCEPT ![TheOne(get_user_by_email(email))] =
        [@ EXCEPT !.hashed_password = hashed_password, !.refresh_token = {}]]

\* UserService.update_password: the table after user.hashed_password =
\* hashed_password
update_password(email, hashed_password) ==
    [users EXCEPT ![TheOne(get_user_by_email(email))].hashed_password =
        hashed_password]

\* GET /auth/reset-password?token=...; new_password is the generated password
validate_reset_token(p, token, new_password) ==
    /\ CanStart(p)
    /\ LET email == get_email_from_token(token)
           user == IF email = {} THEN {} ELSE get_user_by_email(TheOne(email))
       IN  IF email = {}
           THEN /\ req' = [req EXCEPT ![p] = Fail("reset_password", token, 400,
                               "Invalid or expired token.", FALSE)]
                /\ UNCHANGED users
           ELSE IF user = {}
           THEN /\ req' = [req EXCEPT ![p] = Fail("reset_password", token, 404,
                               "User not found.", FALSE)]
                /\ UNCHANGED users
           ELSE /\ users' = update_password(TheOne(email),
                                            get_password_hash(new_password))
                /\ req' = [req EXCEPT ![p] = OkTasks("reset_password", token, 200,
                               ResetResponse(TheOne(email), new_password),
                               <<[task |-> "send_new_password_email",
                                  email |-> TheOne(email),
                                  username |-> users[TheOne(user)].username,
                                  new_password |-> new_password]>>)]
    /\ UNCHANGED <<cache, now, ticks, lastIssued, contactVars, redisVars>>

\* a reset token made for the username
reset_token_ForUsername(user) == create_email_token(user.username)

\* request_password_reset: reset_token = create_email_token({"sub": user.email})
reset_token(user) == create_email_token(user.email)

\* POST /auth/request-password-reset
request_password_reset(p, email) ==
    /\ CanStart(p)
    /\ LET user == get_user_by_email(email)
       IN  IF user = {}
           THEN req' = [req EXCEPT ![p] = Fail("request_password_reset", email, 404,
                            "User with this email does not exist.", FALSE)]
           ELSE req' = [req EXCEPT ![p] =
                            OkTasks("request_password_reset", email, 200,
                                [message |-> "Password reset email has been sent."],
                                <<[task |-> "send_reset_password_email",
                                   email |-> users[TheOne(user)].email,
                                   username |-> users[TheOne(user)].username,
                                   token |-> reset_token(users[TheOne(user)])]>>)]
    /\ UNCHANGED <<users, cache, now, ticks, lastIssued, contactVars, redisVars>>

\* a request that mails the link whatever the confirmed flag
request_email_tasks_Always(user) ==
    <<[task |-> "send_email", email |-> user.email, username |-> user.username]>>

\* request_email: the tasks added for an existing user: none once
\* user.confirmed has returned early, send_email once otherwise
request_email_tasks(user) ==
    IF user.confirmed
    THEN <<>>
    ELSE <<[task |-> "send_email", email |-> user.email, username |-> user.username]>>

\* POST /auth/request-email
request_email(p, email) ==
    /\ CanStart(p)
    /\ LET user == get_user_by_email(email)
       IN  IF user = {}
           THEN req' = [req EXCEPT ![p] = Fail("request_email", email, 404,
                            "User with this email does not exist.", FALSE)]
           ELSE IF users[TheOne(user)].confirmed
           THEN req' = [req EXCEPT ![p] = OkTasks("request_email", email, 200,
                            [message |-> "Email already confirmed"],
                            request_email_tasks(users[TheOne(user)]))]
           ELSE req' = [req EXCEPT ![p] = OkTasks("request_email", email, 200,
                            [message |-> "Check your email for confirmation link."],
                            request_email_tasks(users[TheOne(user)]))]
    /\ UNCHANGED <<users, cache, now, ticks, lastIssued, contactVars, redisVars>>

(* --------------------------------- login ------------------------------ *)
\* schemas.Token, the response_model of /login and /refresh-token: the
\* fields of the handler's dict that the model declares
TokenResponse(ret) ==
    [access_token |-> ret.access_token, token_type |-> ret.token_type]

\* the dict a handler returns after issuing tokens
TokenPair(r) ==
    [access_token |-> r.access_token, refresh_token |-> r.refresh_token,
     token_type |-> "bearer"]

\* history: a refresh token was issued for username
NoteIssued(username, token) == [lastIssued EXCEPT ![username] = {token}]

\* what the client of slot p remembers of the request it made before: the
\* refresh token a login returned to it for username ...
LoginTokenBefore(p, username) ==
    IF req[p].pc = "done" /\ req[p].op = "login" /\ req[p].status = 200
       /\ req[p].input.username = username
    THEN {req[p].ret.refresh_token} ELSE {}

\* ... and the refresh token it exchanged successfully
RotatedBefore(p) ==
    IF req[p].pc = "done" /\ req[p].op = "refresh" /\ req[p].status = 200
    THEN {req[p].input} ELSE {}

\* the checks of login_user without the confirmation flag
LoginFailure_NoConfirmation(username, password) ==
    LET user == get_user_by_username(username, {})
    IN  IF user # {}
           /\ verify_password_raises(password, users[TheOne(user)].hashed_password)
        THEN {[status |-> 500, detail |-> "Internal Server Error",
               www_authenticate |-> FALSE]}
        ELSE IF user = {} \/ ~verify_password(password, users[TheOne(user)].hashed_password)
        THEN {[status |-> 401, detail |-> "Invalid username or password.",
               www_authenticate |-> TRUE]}
        ELSE {}

\* the two checks of login_user, in its order: the error answered (status,
\* detail, WWW-Authenticate header), if any.  verify_password is called
\* only for a user that exists; an exception it raises is caught nowhere
\* and is answered 500.
LoginFailure(username, password) ==
    LET user == get_user_by_username(username, {})
    IN  IF user # {}
           /\ verify_password_raises(password, users[TheOne(user)].hashed_password)
        THEN {[status |-> 500, detail |-> "Internal Server Error",
               www_authenticate |-> FALSE]}
        ELSE IF user = {} \/ ~verify_password(password, users[TheOne(user)].hashed_password)
        THEN {[status |-> 401, detail |-> "Invalid username or password.",
               www_authenticate |-> TRUE]}
        ELSE IF ~users[TheOne(user)].confirmed
        THEN {[status |-> 401,
               detail |-> "Email not confirmed. Please confirm your email first.",
               www_authenticate |-> FALSE]}
        ELSE {}

\* a login that, when it fails for an existing user, clears the stored
\* refresh token
login_user_RevokeOnFailure(p, username, password) ==
    /\ CanStart(p)
    /\ LET input == [username |-> username, password |-> password]
           user == get_user_by_username(username, {})
           failure == LoginFailure(username, password)
       IN  IF failure # {}
           THEN /\ req' = [req EXCEPT ![p] =
                               Fail("login", input, TheOne(failure).status,
                                    TheOne(failure).detail,
                                    TheOne(failure).www_authenticate)]
                /\ users' = IF user = {} THEN users
                            ELSE [users EXCEPT ![TheOne(user)].refresh_token = {}]
                /\ UNCHANGED lastIssued
           ELSE /\ req' = [req EXCEPT ![p] =
                               [pc |-> "login_commit", op |-> "login", input |-> input,
                                user |-> TheOne(user),
                                earlier |-> LoginTokenBefore(p, username),
                                access_token |-> create_access_token(username),
                                refresh_token |-> create_refresh_token(username)]]
                /\ lastIssued' = NoteIssued(username, create_refresh_token(username))
                /\ UNCHANGED users
    /\ UNCHANGED <<cache, now, ticks, contactVars, redisVars>>

\* POST /auth/login up to the commit: look the user up, check the password,
\* then the confirmation flag, then create both tokens
login_user(p, username, password) ==
    /\ CanStart(p)
    /\ LET input == [username |-> username, password |-> password]
           user == get_user_by_username(username, {})
           failure == LoginFailure(username, password)
       IN  IF failure # {}
           THEN /\ req' = [req EXCEPT ![p] =
                               Fail("login", input, TheOne(failure).status,
                                    TheOne(failure).detail,
                                    TheOne(failure).www_authenticate)]
                /\ UNCHANGED lastIssued
           ELSE /\ req' = [req EXCEPT ![p] =
                               [pc |-> "login_commit", op |-> "login", input |-> input,
                                user |-> TheOne(user),
                                earlier |-> LoginTokenBefore(p, username),
                                access_token |-> create_access_token(username),
                                refresh_token |-> create_refresh_token(username)]]
                /\ lastIssued' = NoteIssued(username, create_refresh_token(username))
    /\ UNCHANGED <<users, cache, now, ticks, contactVars, redisVars>>

\* a commit that stores the access token in the refresh_token column
StoreRefreshToken_Access(p) ==
    [users EXCEPT ![req[p].user].refresh_token = {req[p].access_token}]

\* user.refresh_token = refresh_token; await db.commit()
StoreRefreshToken(p) ==
    [users EXCEPT ![req[p].user].refresh_token = {req[p].refresh_token}]

\* POST /auth/login from the commit on
login_commit(p) ==
    /\ req[p].pc = "login_commit"
    /\ users' = StoreRefreshToken(p)
    /\ req' = [req EXCEPT ![p] =
                   [pc |-> "done", op |-> "login", input |-> req[p].input,
                    status |-> 200, user |-> req[p].user,
                    earlier |-> req[p].earlier,
                    ret |-> TokenPair(req[p]),
                    body |-> TokenResponse(TokenPair(req[p]))]]
    /\ UNCHANGED <<cache, now, ticks, lastIssued, contactVars, redisVars>>

(* -------------------------------- refresh ----------------------------- *)
\* verify_refresh_token: raises credentials_exception on a token that does
\* not decode or is no refresh token, else returns the row that
\* get_user_by_username finds for (sub, refresh_token), if any
verify_refresh_token(refresh_token) ==
    LET payload == jwt_decode(refresh_token)
    IN  IF payload = {} \/ PayloadTokenType(TheOne(payload)) # "refresh"
        THEN [raises |-> TRUE, user |-> {}]
        ELSE [raises |-> FALSE,
              user |-> get_user_by_username(TheOne(payload).sub, {refresh_token})]

\* POST /auth/refresh-token up to the commit
new_token(p, refresh_token) ==
    /\ CanStart(p)
    /\ LET verified == verify_refresh_token(refresh_token)
           user == verified.user
       IN  IF verified.raises
           THEN /\ req' = [req EXCEPT ![p] = Fail("refresh", refresh_token, 401,
                               "Could not validate credentials", TRUE)]
                /\ UNCHANGED lastIssued
           ELSE IF user = {}
           THEN /\ req' = [req EXCEPT ![p] = Fail("refresh", refresh_token, 401,
                               "Could not validate credentials", FALSE)]
                /\ UNCHANGED lastIssued
           ELSE LET username == users[TheOne(user)].username
                IN  /\ req' = [req EXCEPT ![p] =
                                   [pc |-> "refresh_commit", op |-> "refresh",
                                    input |-> refresh_token,
                                    user |-> TheOne(user),
                                    reused |-> refresh_token \in RotatedBefore(p),
                                    relogin |-> req[p].pc = "done"
                                                /\ req[p].op = "login"
                                                /\ req[p].status = 200
                                                /\ refresh_token \in req[p].earlier,
                                    access_token |-> create_access_token(username),
                                    refresh_token |-> create_refresh_token(username)]]
                    /\ lastIssued' = NoteIssued(username, create_refresh_token(username))
    /\ UNCHANGED <<users, cache, now, ticks, contactVars, redisVars>>

\* POST /auth/refresh-token from the commit on
new_token_commit(p) ==
    /\ req[p].pc = "refresh_commit"
    /\ users' = StoreRefreshToken(p)
    /\ req' = [req EXCEPT ![p] =
                   [pc |-> "done", op |-> "refresh", input |-> req[p].input,
                    status |-> 200, user |-> req[p].user,
                    reused |-> req[p].reused, relogin |-> req[p].relogin,
                    ret |-> TokenPair(req[p]),
                    body |-> TokenResponse(TokenPair(req[p]))]]
    /\ UNCHANGED <<cache, now, ticks, lastIssued, contactVars, redisVars>>

(* ---------------------------- get_current_user ------------------------ *)
\* a dict built from the directory row as it is when the cache is written
Snapshot_AtWrite(u) ==
    [id |-> u.id, username |-> u.username, email |-> u.email,
     avatar |-> u.avatar, role |-> users[u.id].role]

\* the dict cached under user:<username>
Snapshot(u) ==
    [id |-> u.id, username |-> u.username, email |-> u.email,
     avatar |-> u.avatar, role |-> u.role]

\* a User built from a cached dict with the role of the directory row
UserFromCache_DirectoryRole(user_data) ==
    [id |-> user_data.id, username |-> user_data.username,
     email |-> user_data.email, avatar |-> user_data.avatar,
     role |-> users[user_data.id].role]

\* the User built from a cached dict
UserFromCache(user_data) ==
    [id |-> user_data.id, username |-> user_data.username,
     email |-> user_data.email, avatar |-> user_data.avatar,
     role |-> user_data.role]

\* a decode that does not look at token_type
DecodeAccess_AnyType(token) == jwt_decode(token)

\* the decode of get_current_user: the payload of a token that decodes and
\* carries token_type access; empty stands for credentials_exception
DecodeAccess(token) ==
    {payload \in jwt_decode(token) : PayloadTokenType(payload) = "access"}

\* get_current_user up to the answer of redis_client.get
get_current_user(p, token) ==
    /\ CanStart(p)
    /\ LET payload == DecodeAccess(token)
       IN  IF payload = {}
           THEN req' = [req EXCEPT ![p] = Fail("get_current_user", token, 401,
                            "Could not validate credentials", TRUE)]
           ELSE LET username == TheOne(payload).sub
                    cached_user == cache[username]
                IN  IF cached_user # {}
                    THEN req' = [req EXCEPT ![p] =
                             [pc |-> "done", op |-> "get_current_user",
                              input |-> token, status |-> 200, queried |-> FALSE,
                              user |-> UserFromCache(TheOne(cached_user).value)]]
                    ELSE req' = [req EXCEPT ![p] =
                             [pc |-> "gcu_db", op |-> "get_current_user",
                              input |-> token, username |-> username]]
    /\ UNCHANGED <<users, cache, now, ticks, lastIssued, contactVars, redisVars>>

\* get_current_user: the answer of user_service.get_user_by_username
get_current_user_db(p) ==
    /\ req[p].pc = "gcu_db"
    /\ LET user == get_user_by_username(req[p].username, {})
       IN  IF user = {}
           THEN req' = [req EXCEPT ![p] = Fail("get_current_user", req[p].input, 401,
                            "Could not validate credentials", TRUE)]
           ELSE req' = [req EXCEPT ![p] =
                            [pc |-> "gcu_set", op |-> "get_current_user",
                             input |-> req[p].input, username |-> req[p].username,
                             user |-> users[TheOne(user)]]]
    /\ UNCHANGED <<users, cache, now, ticks, lastIssued, contactVars, redisVars>>

\* a set that keeps the key twice as long
RedisSet_LongLived(key, value) ==
    [cache EXCEPT ![key] = {[value |-> value, expires_at |-> now + 2 * REDIS_TTL]}]

\* redis_client.set(key, value, ex=REDIS_TTL)
RedisSet(key, value) ==
    [cache EXCEPT ![key] = {[value |-> value, expires_at |-> now + REDIS_TTL]}]

\* get_current_user: redis_client.set and the return of the user
get_current_user_set(p) ==
    /\ req[p].pc = "gcu_set"
    /\ cache' = RedisSet(req[p].username, Snapshot(req[p].user))
    /\ req' = [req EXCEPT ![p] =
                   [pc |-> "done", op |-> "get_current_user", input |-> req[p].input,
                    status |-> 200, queried |-> TRUE, user |-> req[p].user]]
    /\ UNCHANGED <<users, now, ticks, lastIssued, contactVars, redisVars>>

\* get_current_admin_user: 403 unless the resolved user has role ADMIN
\* a gate that lets every resolved identity pass
get_current_admin_user_AnyRole(current_user) ==
    [status |-> 200, user |-> current_user]

\* role None: the identity built from a cached dict whose role is null
NoRole == "None"

get_current_admin_user(current_user) ==
    IF current_user.role # "ADMIN"
    THEN [status |-> 403, detail |-> "Only admin users can access this endpoint"]
    ELSE [status |-> 200, user |-> current_user]

\* the URL that upload_service.upload_file(file, username) returns
Uploaded(username) == <<"cloudinary", username>>

\* PATCH /users/avatar, once its dependency get_current_user has resolved
\* the identity shown in slot p: get_current_admin_user, then the upload and
\* update_avatar_url by the e-mail of that identity; the RuntimeError of a
\* failed upload and the ValueError of a missing row are answered 500
update_avatar_user(p, uploads) ==
    /\ req[p].pc = "done" /\ req[p].op = "get_current_user" /\ req[p].status = 200
    /\ LET gate == get_current_admin_user(req[p].user)
           user == get_user_by_email(req[p].user.email)
       IN  IF gate.status # 200
           THEN /\ req' = [req EXCEPT ![p] = Fail("update_avatar", req[p].input,
                               gate.status, gate.detail, FALSE)]
                /\ UNCHANGED users
           ELSE IF ~uploads \/ user = {}
           THEN /\ req' = [req EXCEPT ![p] = Fail("update_avatar", req[p].input, 500,
                               "An error occurred while updating the avatar.", FALSE)]
                /\ UNCHANGED users
           ELSE /\ users' = [users EXCEPT ![TheOne(user)].avatar =
                                 Uploaded(req[p].user.username)]
                /\ req' = [req EXCEPT ![p] =
                               [pc |-> "done", op |-> "update_avatar",
                                input |-> req[p].input, status |-> 200,
                                identity |-> req[p].user,
                                body |-> UserResponse([users[TheOne(user)] EXCEPT
                                             !.avatar = Uploaded(req[p].user.username)])]]
    /\ UNCHANGED <<cache, now, ticks, lastIssued, contactVars, redisVars>>

(* ------------------------------ the inputs ---------------------------- *)
\* the tokens a client can hold: those the service has handed out and
\* still shows (stored, returned by the request before, retired), those
\* create_access_token, create_refresh_token and create_email_token sign
\* this second, and a string that is no token
Tokens ==
    UNION {users[i].refresh_token : i \in UserIds}
    \cup UNION {{req[p].ret.access_token, req[p].ret.refresh_token} :
                   p \in {q \in Workers : req[q].pc = "done" /\ "ret" \in DOMAIN req[q]}}
    \cup UNION {{req[p].input} :
                   p \in {q \in Workers : req[q].pc = "done" /\ req[q].op = "refresh"}}
    \cup UNION {req[p].earlier :
                   p \in {q \in Workers : req[q].pc = "done" /\ req[q].op = "login"
                                          /\ req[q].status = 200}}
    \cup {create_access_token(n) : n \in Names}
    \cup {create_refresh_token(n) : n \in Names}
    \cup {create_email_token(n) : n \in Names}
    \cup {Malformed}

\* the password a client registers with
RegisterPasswords == {"p"}

(* --------------------------- specifications --------------------------- *)
\* one request at a time, from the empty directory
Next ==
    \/ \E d \in TickSteps : Tick(d)
    \/ \E n \in Names, e \in Names, pw \in RegisterPasswords : register_user(1, n, e, pw)
    \/ register_commit(1)
    \/ \E t \in Tokens : confirmed_email(1, t)
    \/ \E t \in Tokens, pw \in Passwords : validate_reset_token(1, t, pw)
    \/ \E n \in Names, pw \in Passwords : login_user(1, n, pw)
    \/ login_commit(1)
    \/ \E t \in Tokens : new_token(1, t)
    \/ new_token_commit(1)
    \/ \E t \in Tokens : get_current_user(1, t)
    \/ get_current_user_db(1)
    \/ get_current_user_set(1)

Spec == Init /\ [][Next]_vars

\* the role column of a row is changed in the directory, outside the
\* service (no handler writes it)
DirectorySetRole(i, role) ==
    /\ i \in UserIds
    /\ users[i].role # role
    /\ users' = [users EXCEPT ![i].role = role]
    /\ UNCHANGED <<cache, now, ticks, req, lastIssued, contactVars, redisVars>>

UserRole == {"USER", "ADMIN"}

\* the tokens the service has handed out and still shows: stored, returned
\* by the request before, or presented to it
HandedOut ==
    UNION {users[i].refresh_token : i \in UserIds}
    \cup UNION {{req[p].ret.access_token, req[p].ret.refresh_token} :
                   p \in {q \in Workers : req[q].pc = "done" /\ "ret" \in DOMAIN req[q]}}
    \cup UNION {{req[p].input} :
                   p \in {q \in Workers : req[q].pc = "done" /\ req[q].op = "refresh"}}

\* a state of Spec: "a" has registered with e-mail "b" and password "p" and
\* has confirmed the e-mail, all in the first second
InitConfirmed ==
    /\ users = <<[id |-> 1, username |-> "a", email |-> "b",
                  hashed_password |-> get_password_hash("p"),
                  refresh_token |-> {}, confirmed |-> TRUE,
                  avatar |-> <<"gravatar", "b">>, role |-> "USER"]>>
    /\ cache = [n \in Names |-> {}]
    /\ now = 0
    /\ ticks = 0
    /\ req = [p \in Workers |->
                 IF p = 1
                 THEN Ok("confirm_email",
                         [sub |-> "b", iat |-> 0, exp |-> EMAIL_TOKEN_SECONDS,
                          signed |-> TRUE],
                         200, [message |-> "Email confirmed successfully"])
                 ELSE Idle]
    /\ lastIssued = [n \in Names |-> {}]
    /\ contacts = {}
    /\ contact_id_seq = 0
    /\ Serving

\* logins and refreshes of that user, running concurrently
NextSession ==
    \/ \E d \in TickSteps : Tick(d)
    \/ \E p \in Workers :
          \/ login_user(p, "a", "p")
          \/ login_commit(p)
          \/ \E t \in HandedOut : new_token(p, t)
          \/ new_token_commit(p)

SpecSession == InitConfirmed /\ [][NextSession]_vars

\* resolutions of access tokens, running concurrently, while the directory
\* changes roles
NextCache ==
    \/ \E d \in TickSteps : Tick(d)
    \/ \E i \in UserIds, r \in UserRole : DirectorySetRole(i, r)
    \/ \E p \in Workers :
          \/ \E n \in Names : get_current_user(p, create_access_token(n))
          \/ get_current_user_db(p)
          \/ get_current_user_set(p)

SpecCache == InitConfirmed /\ [][NextCache]_vars

\* registrations, confirmations and password resets with the tokens mailed
\* for them, and logins, one request at a time
NextLogin ==
    \/ \E d \in TickSteps : Tick(d)
    \/ \E n \in Names, e \in Names, pw \in RegisterPasswords : register_user(1, n, e, pw)
    \/ register_commit(1)
    \/ \E e \in Names : confirmed_email(1, create_email_token(e))
    \/ \E e \in Names, pw \in Passwords :
          validate_reset_token(1, create_email_token(e), pw)
    \/ \E n \in Names, pw \in LoginPasswords : login_user(1, n, pw)
    \/ login_commit(1)

SpecLogin == Init /\ [][NextLogin]_vars

\* the confirmed user logs in, and any token a client can hold is presented
\* to the refresh flow and to get_current_user, one request at a time
NextTokens ==
    \/ \E d \in TickSteps : Tick(d)
    \/ login_user(1, "a", "p")
    \/ login_commit(1)
    \/ \E t \in Tokens : new_token(1, t)
    \/ new_token_commit(1)
    \/ \E t \in Tokens : get_current_user(1, t)
    \/ get_current_user_db(1)
    \/ get_current_user_set(1)

SpecTokens == InitConfirmed /\ [][NextTokens]_vars

\* the e-mail action tokens a client can hold: mailed this second, mailed
\* more than their lifetime ago, or no token at all
EmailTokens ==
    {create_email_token(e) : e \in Names}
    \cup {ExpiredEmailToken(e) : e \in Names}
    \cup {Malformed}

\* the e-mail flows, one request at a time, from the empty directory
NextEmail ==
    \/ \E d \in TickSteps : Tick(d)
    \/ \E n \in Names, e \in Names, pw \in RegisterPasswords : register_user(1, n, e, pw)
    \/ register_commit(1)
    \/ \E t \in EmailTokens : confirmed_email(1, t)
    \/ \E t \in EmailTokens, pw \in Passwords : validate_reset_token(1, t, pw)
    \/ \E e \in Names : request_password_reset(1, e)
    \/ \E e \in Names : request_email(1, e)

SpecEmail == Init /\ [][NextEmail]_vars

\* registrations running concurrently
NextRegister ==
    \E p \in Workers :
        \/ \E n \in Names, e \in Names, pw \in RegisterPasswords : register_user(p, n, e, pw)
        \/ register_commit(p)

SpecRegister == Init /\ [][NextRegister]_vars

\* resolutions of access tokens followed by avatar updates, one request at
\* a time, while the directory changes roles
NextAdmin ==
    \/ \E d \in TickSteps : Tick(d)
    \/ \E i \in UserIds, r \in UserRole : DirectorySetRole(i, r)
    \/ \E n \in Names : get_current_user(1, create_access_token(n))
    \/ get_current_user_db(1)
    \/ get_current_user_set(1)
    \/ \E uploads \in BOOLEAN : update_avatar_user(1, uploads)

SpecAdmin == InitConfirmed /\ [][NextAdmin]_vars

\* the tasks the response in slot p has added
TaskSet(p) ==
    IF req[p].pc = "done" /\ "tasks" \in DOMAIN req[p]
    THEN {req[p].tasks[k] : k \in DOMAIN req[p].tasks}
    ELSE {}

\* the e-mail action tokens a client holds: the one in the link that the
\* send_email task of a response makes when it runs, the one in the link of
\* a send_reset_password_email task, and those it has presented before
Mailed ==
    UNION {{send_email_token(t.email) :
               t \in {x \in TaskSet(p) : x.task = "send_email"}} : p \in Workers}
    \cup UNION {{t.token :
               t \in {x \in TaskSet(p) : x.task = "send_reset_password_email"}} :
                   p \in Workers}
    \cup {req[p].input :
             p \in {q \in Workers : /\ req[q].pc = "done"
                                     /\ req[q].op \in {"reset_password",
                                                        "confirm_email"}}}

\* "a" registers with e-mail "b" and asks for the links in slot 1; the
\* links are followed from either slot, while the clock advances
NextMailbox ==
    \/ \E d \in TickSteps : Tick(d)
    \/ register_user(1, "a", "b", "p")
    \/ register_commit(1)
    \/ request_password_reset(1, "b")
    \/ request_email(1, "b")
    \/ \E p \in Workers, t \in Mailed, pw \in Passwords : validate_reset_token(p, t, pw)
    \/ \E p \in Workers, t \in Mailed : confirmed_email(p, t)

SpecMailbox == Init /\ [][NextMailbox]_vars

\* the life of one account: "a" registers with e-mail "b", confirms, has
\* its password reset, logs in, and presents the tokens it was handed to
\* the refresh flow and to get_current_user, one request at a time in slot 1; slot 2 keeps the response of a login of "a" while
\* slot 1 goes on
NextAccount ==
    \/ \E d \in TickSteps : Tick(d)
    \/ register_user(1, "a", "b", "p")
    \/ register_commit(1)
    \/ confirmed_email(1, create_email_token("b"))
    \/ \E pw \in Passwords : validate_reset_token(1, create_email_token("b"), pw)
    \/ \E pw \in LoginPasswords : login_user(1, "a", pw)
    \/ login_user(1, "b", "p")
    \/ login_commit(1)
    \/ \E t \in HandedOut : new_token(1, t)
    \/ new_token_commit(1)
    \/ \E t \in HandedOut : get_current_user(1, t)
    \/ get_current_user_db(1)
    \/ get_current_user_set(1)
    \/ login_user(2, "a", "p")
    \/ login_commit(2)

SpecAccount == Init /\ [][NextAccount]_vars

(* ------------------------------ the contacts ------------------------- *)
\* the ids the contact table hands out while the model runs
MaxContacts == 2

\* the e-mail addresses a client gives its contacts
ContactEmails == {"x", "y"}

ContactIds == 1..MaxContacts

\* get_contact_by_id without the filter on the user
get_contact_by_id_AnyUser(contact_id, user) ==
    {c \in contacts : c.id = contact_id}

\* ContactRepository.get_contact_by_id: the rows with that id that belong to
\* the user
get_contact_by_id(contact_id, user) ==
    {c \in contacts : c.id = contact_id /\ c.user_id = user.id}

\* ContactRepository.get_contact_by_email: the rows with that e-mail that
\* belong to the user
get_contact_by_email(email, user) ==
    {c \in contacts : c.email = email /\ c.user_id = user.id}

\* ContactResponse: the row without its owner
ContactResponse(c) == [id |-> c.id, email |-> c.email]

\* an HTTPException of a contact handler, and a 500 for an exception no
\* handler catches
ContactFail(op, user, input, status, detail) ==
    [pc |-> "done", op |-> op, user |-> user, input |-> input, status |-> status,
     detail |-> detail]

\* a response of a contact handler
ContactOk(op, user, input, status, body) ==
    [pc |-> "done", op |-> op, user |-> user, input |-> input, status |-> status,
     body |-> body]

\* the 204 of the delete handler, which has no body
ContactNoContent(op, user, input) ==
    [pc |-> "done", op |-> op, user |-> user, input |-> input, status |-> 204]

\* a contact handler suspended at an await
ContactAwait(pc, op, user, input) ==
    [pc |-> pc, op |-> op, user |-> user, input |-> input]

\* the detail of ContactService.get_contact
ContactNotFound(contact_id) == <<"Contact with ID", contact_id, "not found">>

\* the dependency get_current_user of the handler has resolved the identity
\* shown in slot p
Resolved(p) ==
    req[p].pc = "done" /\ req[p].op = "get_current_user" /\ req[p].status = 200

\* POST /contacts/, up to the await of the insert: 409 when the user has a
\* contact with the e-mail
create_contact(p, email) ==
    /\ Resolved(p)
    /\ LET user == req[p].user
           input == [email |-> email]
       IN  req' = [req EXCEPT ![p] =
                      IF get_contact_by_email(email, user) # {}
                      THEN ContactFail("create_contact", user, input, 409,
                                       "Contact with this email already exists")
                      ELSE ContactAwait("contact_insert", "create_contact", user, input)]
    /\ UNCHANGED <<users, cache, now, ticks, lastIssued, contactVars, redisVars>>

\* ContactRepository.create_contact: the insert takes the next id; the
\* IntegrityError of the unique e-mail column is caught by nobody
create_contact_commit(p) ==
    /\ req[p].pc = "contact_insert"
    /\ contact_id_seq < MaxContacts
    /\ contact_id_seq' = contact_id_seq + 1
    /\ LET r == req[p]
           row == [id |-> contact_id_seq + 1, email |-> r.input.email,
                   user_id |-> r.user.id]
       IN  IF \E c \in contacts : c.email = r.input.email
           THEN /\ req' = [req EXCEPT ![p] =
                              ContactFail(r.op, r.user, r.input, 500,
                                          "Internal Server Error")]
                /\ UNCHANGED contacts
           ELSE /\ contacts' = contacts \cup {row}
                /\ req' = [req EXCEPT ![p] =
                              ContactOk(r.op, r.user, r.input, 201, ContactResponse(row))]
    /\ UNCHANGED <<users, cache, now, ticks, lastIssued, redisVars>>

\* GET /contacts/{contact_id}
read_contact(p, contact_id) ==
    /\ Resolved(p)
    /\ LET user == req[p].user
           input == [contact_id |-> contact_id]
           found == get_contact_by_id(contact_id, user)
       IN  req' = [req EXCEPT ![p] =
                      IF found = {}
                      THEN ContactFail("read_contact", user, input, 404,
                                       ContactNotFound(contact_id))
                      ELSE ContactOk("read_contact", user, input, 200,
                                     ContactResponse(TheOne(found)))]
    /\ UNCHANGED <<users, cache, now, ticks, lastIssued, contactVars, redisVars>>

\* PUT /contacts/{contact_id}, up to the await of the repository:
\* ContactService.get_contact
update_contact(p, contact_id, email) ==
    /\ Resolved(p)
    /\ LET user == req[p].user
           input == [contact_id |-> contact_id, email |-> email]
       IN  req' = [req EXCEPT ![p] =
                      IF get_contact_by_id(contact_id, user) = {}
                      THEN ContactFail("update_contact", user, input, 404,
                                       ContactNotFound(contact_id))
                      ELSE ContactAwait("contact_update_lookup", "update_contact",
                                        user, input)]
    /\ UNCHANGED <<users, cache, now, ticks, lastIssued, contactVars, redisVars>>

\* ContactRepository.update_contact, its own lookup: None goes through the
\* service to ensure_contact_exists
update_contact_lookup(p) ==
    /\ req[p].pc = "contact_update_lookup"
    /\ LET r == req[p]
       IN  req' = [req EXCEPT ![p] =
                      IF get_contact_by_id(r.input.contact_id, r.user) = {}
                      THEN ContactFail(r.op, r.user, r.input, 404, "Contact not found")
                      ELSE ContactAwait("contact_update_commit", r.op, r.user, r.input)]
    /\ UNCHANGED <<users, cache, now, ticks, lastIssued, contactVars, redisVars>>

\* ContactRepository.update_contact, commit and refresh: the row written by
\* primary key; the exception of a row that is gone, and the IntegrityError
\* of the unique e-mail column, are caught by nobody
update_contact_commit(p) ==
    /\ req[p].pc = "contact_update_commit"
    /\ LET r == req[p]
           old == {c \in contacts : c.id = r.input.contact_id}
       IN  IF \/ old = {}
              \/ \E c \in contacts : c.email = r.input.email /\ c \notin old
           THEN /\ req' = [req EXCEPT ![p] =
                              ContactFail(r.op, r.user, r.input, 500,
                                          "Internal Server Error")]
                /\ UNCHANGED contacts
           ELSE LET row == [TheOne(old) EXCEPT !.email = r.input.email]
                IN  /\ contacts' = (contacts \ old) \cup {row}
                    /\ req' = [req EXCEPT ![p] =
                                  ContactOk(r.op, r.user, r.input, 200,
                                            ContactResponse(row))]
    /\ UNCHANGED <<users, cache, now, ticks, lastIssued, contact_id_seq, redisVars>>

\* DELETE /contacts/{contact_id}, up to the await of the repository:
\* ContactService.get_contact
remove_contact(p, contact_id) ==
    /\ Resolved(p)
    /\ LET user == req[p].user
           input == [contact_id |-> contact_id]
       IN  req' = [req EXCEPT ![p] =
                      IF get_contact_by_id(contact_id, user) = {}
                      THEN ContactFail("remove_contact", user, input, 404,
                                       ContactNotFound(contact_id))
                      ELSE ContactAwait("contact_remove_lookup", "remove_contact",
                                        user, input)]
    /\ UNCHANGED <<users, cache, now, ticks, lastIssued, contactVars, redisVars>>

\* ContactRepository.remove_contact, its own lookup: None is returned to the
\* service, which ignores it
remove_contact_lookup(p) ==
    /\ req[p].pc = "contact_remove_lookup"
    /\ LET r == req[p]
       IN  req' = [req EXCEPT ![p] =
                      IF get_contact_by_id(r.input.contact_id, r.user) = {}
                      THEN ContactNoContent(r.op, r.user, r.input)
                      ELSE ContactAwait("contact_remove_commit", r.op, r.user, r.input)]
    /\ UNCHANGED <<users, cache, now, ticks, lastIssued, contactVars, redisVars>>

\* ContactRepository.remove_contact, delete and commit: the row deleted by
\* primary key; a row that is gone makes a warning only
remove_contact_commit(p) ==
    /\ req[p].pc = "contact_remove_commit"
    /\ LET r == req[p]
       IN  /\ contacts' = {c \in contacts : c.id # r.input.contact_id}
           /\ req' = [req EXCEPT ![p] = ContactNoContent(r.op, r.user, r.input)]
    /\ UNCHANGED <<users, cache, now, ticks, lastIssued, contact_id_seq, redisVars>>

\* a state of Spec: "a" and "b" have registered and confirmed, and no
\* contact was ever made
InitContacts ==
    /\ users = <<[id |-> 1, username |-> "a", email |-> "b",
                  hashed_password |-> get_password_hash("p"),
                  refresh_token |-> {}, confirmed |-> TRUE,
                  avatar |-> <<"gravatar", "b">>, role |-> "USER"],
                 [id |-> 2, username |-> "b", email |-> "a",
                  hashed_password |-> get_password_hash("p"),
                  refresh_token |-> {}, confirmed |-> TRUE,
                  avatar |-> <<"gravatar", "a">>, role |-> "USER"]>>
    /\ cache = [n \in Names |-> {}]
    /\ now = 0
    /\ ticks = 0
    /\ req = [p \in Workers |-> Idle]
    /\ lastIssued = [n \in Names |-> {}]
    /\ contacts = {}
    /\ contact_id_seq = 0
    /\ Serving

\* contact requests of the two users, running concurrently, each after the
\* resolution of its access token
NextContacts ==
    \E p \in Workers :
        \/ \E n \in Names : get_current_user(p, create_access_token(n))
        \/ get_current_user_db(p)
        \/ get_current_user_set(p)
        \/ \E e \in ContactEmails : create_contact(p, e)
        \/ create_contact_commit(p)
        \/ \E id \in ContactIds : read_contact(p, id)
        \/ \E id \in ContactIds, e \in ContactEmails : update_contact(p, id, e)
        \/ update_contact_lookup(p)
        \/ update_contact_commit(p)
        \/ \E id \in ContactIds : remove_contact(p, id)
        \/ remove_contact_lookup(p)
        \/ remove_contact_commit(p)

SpecContacts == InitContacts /\ [][NextContacts]_vars

(* ------------------------------ src/redis.py ------------------------- *)
\* the clients redis.from_url makes while the model runs
MaxClients == 3

\* the outcome of a call of get_redis, init_redis or close_redis: the
\* exception it raised, if any, and the value it returned, if any
Call(op, raised, ret) == [pc |-> "done", op |-> op, raised |-> raised, ret |-> ret]

RuntimeError(message) == <<"RuntimeError", message>>

\* get_redis: the module's client, or RuntimeError when there is none
get_redis(p) ==
    /\ CanStart(p)
    /\ req' = [req EXCEPT ![p] =
                  IF redis_client = None
                  THEN Call("get_redis", {RuntimeError("Redis is not initialized.")}, {})
                  ELSE Call("get_redis", {}, {redis_client})]
    /\ UNCHANGED <<users, cache, now, ticks, lastIssued, contactVars, redisVars>>

\* what the server does to init_redis: from_url raises ConnectionError, or
\* the ping of the new client does, or neither
RedisOutcomes == {"from_url raises", "ping raises", "connected"}

\* init_redis: from_url's client is assigned to the module's variable
\* before the ping, and to app.state after it; ConnectionError becomes
\* RuntimeError
init_redis(p, outcome) ==
    /\ CanStart(p)
    /\ Len(clients) < MaxClients
    /\ IF outcome = "from_url raises"
       THEN /\ req' = [req EXCEPT ![p] =
                          Call("init_redis", {RuntimeError("Redis connection error")}, {})]
            /\ UNCHANGED redisVars
       ELSE /\ clients' = Append(clients, [closed |-> 0])
            /\ redis_client' = Len(clients) + 1
            /\ IF outcome = "ping raises"
               THEN /\ req' = [req EXCEPT ![p] =
                                  Call("init_redis",
                                       {RuntimeError("Redis connection error")}, {})]
                    /\ UNCHANGED app_state_redis_client
               ELSE /\ req' = [req EXCEPT ![p] = Call("init_redis", {}, {})]
                    /\ app_state_redis_client' = Len(clients) + 1
    /\ UNCHANGED <<users, cache, now, ticks, lastIssued, contactVars>>

\* close_redis that closes the client and keeps it in the module's variable
close_redis_KeepClient(p) ==
    /\ CanStart(p)
    /\ req' = [req EXCEPT ![p] = Call("close_redis", {}, {})]
    /\ IF redis_client # None
       THEN /\ clients' = [clients EXCEPT ![redis_client].closed = @ + 1]
            /\ UNCHANGED <<redis_client, app_state_redis_client>>
       ELSE UNCHANGED redisVars
    /\ UNCHANGED <<users, cache, now, ticks, lastIssued, contactVars>>

\* close_redis: the module's client, if there is one, is closed and the
\* variable is set to None; app.state is not touched
close_redis(p) ==
    /\ CanStart(p)
    /\ req' = [req EXCEPT ![p] = Call("close_redis", {}, {})]
    /\ IF redis_client # None
       THEN /\ clients' = [clients EXCEPT ![redis_client].closed = @ + 1]
            /\ redis_client' = None
            /\ UNCHANGED app_state_redis_client
       ELSE UNCHANGED redisVars
    /\ UNCHANGED <<users, cache, now, ticks, lastIssued, contactVars>>

\* the module as imported: no client, nothing in app.state
InitImported ==
    /\ users = <<>>
    /\ cache = [n \in Names |-> {}]
    /\ now = 0
    /\ ticks = 0
    /\ req = [p \in Workers |-> Idle]
    /\ lastIssued = [n \in Names |-> {}]
    /\ contacts = {}
    /\ contact_id_seq = 0
    /\ redis_client = None
    /\ app_state_redis_client = None
    /\ clients = <<>>

\* the three functions called in any order, one call at a time; the slot
\* tells the callers apart
NextRedis ==
    \E p \in Workers :
        \/ get_redis(p)
        \/ \E outcome \in RedisOutcomes : init_redis(p, outcome)
        \/ close_redis(p)

SpecRedis == InitImported /\ [][NextRedis]_vars

(* ------------------------------ the claims ---------------------------- *)
\* slot p shows the response of a request to op
Done(p, op) == req[p].pc = "done" /\ req[p].op = op

\* token is a JWT signed by the service that carries the token_type claim
HasType(token, token_type) ==
    token.signed /\ "token_type" \in DOMAIN token /\ token.token_type = token_type

\* token is an e-mail action token: signed, with iat and no token_type
IsEmailToken(token) == token.signed /\ "token_type" \notin DOMAIN token

\* the step taken starts a request to op in slot p, and either answers it
\* or suspends it
Starts(p, op) ==
    /\ CanStart(p)
    /\ req'[p] # req[p]
    /\ req'[p].op = op
    /\ req'[p].pc \in {"done", "login_commit", "refresh_commit", "gcu_db"}

\* the response in slot p is the 401 of credentials_exception
IsCredentialsException(r) ==
    /\ r.pc = "done" /\ r.status = 401
    /\ r.detail = "Could not validate credentials"

\* C1, as state predicate: a response of get_current_user to a refresh token
\* is the 401 and carries no user; a response of the refresh flow to an
\* access token is the 401 and carries no tokens; no refresh is in flight
\* for an access token.
TypeIsolationState ==
    \A p \in Workers :
        /\ Done(p, "get_current_user") /\ HasType(req[p].input, "refresh")
              => IsCredentialsException(req[p]) /\ "user" \notin DOMAIN req[p]
        /\ Done(p, "refresh") /\ HasType(req[p].input, "access")
              => IsCredentialsException(req[p]) /\ "ret" \notin DOMAIN req[p]
                 /\ "body" \notin DOMAIN req[p]
        /\ req[p].pc = "refresh_commit" => ~HasType(req[p].input, "access")
        /\ req[p].pc \in {"gcu_db", "gcu_set"} => ~HasType(req[p].input, "refresh")

\* C1, as step: the refresh flow presented with an access token is answered
\* at once with the 401 and leaves every row of the directory as it was.
TypeIsolationStep ==
    \A p \in Workers :
        /\ Starts(p, "refresh") /\ HasType(req'[p].input, "access")
              => IsCredentialsException(req'[p]) /\ users' = users
        /\ Starts(p, "get_current_user") /\ HasType(req'[p].input, "refresh")
              => IsCredentialsException(req'[p]) /\ cache' = cache

\* C1: token type isolation between access and refresh tokens: for every
\* validly signed, unexpired refresh token R, get_current_user(R)
\* fails with 401 and returns no identity, and for every validly signed
\* access token A the refresh flow fails with 401, issues no tokens and
\* does not change the stored refresh token.
TypeIsolation == []TypeIsolationState /\ [][TypeIsolationStep]_vars

\* C1 witness: get_current_user was called with the unexpired refresh token
\* stored for an existing user, and answered 401.
TypeIsolationWitness ==
    \E p \in Workers, i \in UserIds :
        /\ Done(p, "get_current_user")
        /\ users[i].refresh_token = {req[p].input}
        /\ users[i].username = req[p].input.sub
        /\ jwt_decode(req[p].input) # {}
        /\ req[p].status = 401

\* the service issued token to a user: it is the refresh token stored on a row
IsStoredRefreshToken(token) ==
    \E i \in UserIds : users[i].refresh_token = {token}

\* C2: token type isolation for e-mail action tokens: an access or refresh
\* token (here: a refresh token the service issued and stored) presented to
\* confirm-email or reset-password is never accepted, so it never confirms
\* an e-mail or changes a password, even when some user's e-mail equals its
\* subject; and an e-mail action token is never accepted by
\* get_current_user or by the refresh flow.
EmailTokenIsolation ==
    \A p \in Workers :
        /\ (Done(p, "confirm_email") \/ Done(p, "reset_password"))
           /\ IsStoredRefreshToken(req[p].input)
              => req[p].status # 200
        /\ (Done(p, "get_current_user") \/ Done(p, "refresh"))
           /\ IsEmailToken(req[p].input)
              => IsCredentialsException(req[p])

\* C3: refresh rotation: after refresh(R1) has succeeded, the next call
\* refresh(R1) of the same client fails with 401, even though R1 has not
\* expired (reused: the token presented is the one this client exchanged
\* successfully in its request before).
RefreshRotation ==
    \A p \in Workers :
        Done(p, "refresh") /\ req[p].status = 200 => ~req[p].reused

\* the refresh flow accepts token in this state: it decodes as an unexpired
\* refresh token and equals the refresh_token stored on the user its
\* subject names
MatchesStored(token) ==
    /\ jwt_decode(token) # {}
    /\ HasType(token, "refresh")
    /\ \E i \in UserIds : /\ users[i].username = token.sub
                          /\ users[i].refresh_token = {token}

\* C4, as step: a refresh request goes on to issue tokens only if the token
\* presented matches the stored one, and a validly signed, unexpired refresh
\* token that matches no stored one is answered 401 "Could not validate
\* credentials".
StoredTokenOnlyStep ==
    \A p \in Workers :
        Starts(p, "refresh") =>
            /\ req'[p].pc = "refresh_commit" => MatchesStored(req'[p].input)
            /\ ~MatchesStored(req'[p].input)
                  => IsCredentialsException(req'[p]) /\ users' = users

\* C4, as state predicate: a 200 of the refresh flow was for a refresh token
\* of the user it names.
StoredTokenOnlyState ==
    \A p \in Workers :
        Done(p, "refresh") /\ req[p].status = 200
            => /\ HasType(req[p].input, "refresh")
               /\ users[req[p].user].username = req[p].input.sub

\* C4: the refresh flow succeeds only if the presented token decodes as an
\* unexpired refresh token and equals the refresh_token currently stored on
\* the user named by its subject; a validly signed, unexpired refresh token
\* that was never stored, or whose user has no stored refresh_token, yields
\* 401 "Could not validate credentials".
StoredTokenOnly == []StoredTokenOnlyState /\ [][StoredTokenOnlyStep]_vars

\* C4 witness: a validly signed, unexpired refresh token of an existing user
\* with no stored refresh_token was presented and answered 401.
StoredTokenOnlyWitness ==
    \E p \in Workers, i \in UserIds :
        /\ Done(p, "refresh")
        /\ HasType(req[p].input, "refresh")
        /\ jwt_decode(req[p].input) # {}
        /\ users[i].username = req[p].input.sub
        /\ users[i].refresh_token = {}
        /\ IsCredentialsException(req[p])

\* no request that has issued a refresh token for the user of row i is
\* still waiting for its commit
Quiescent(i) ==
    \A p \in Workers :
        req[p].pc \in {"login_commit", "refresh_commit"} => req[p].user # i

\* C5, as the spec words it: whenever no request of the user is between
\* issuing and storing, the stored refresh_token is absent or is the refresh
\* token most recently issued for that user.
StoredIsMostRecentlyIssued ==
    \A i \in UserIds :
        Quiescent(i) =>
            \/ users[i].refresh_token = {}
            \/ users[i].refresh_token = lastIssued[users[i].username]

\* C5, amended, as state predicate: the stored refresh_token is absent or is
\* one refresh token issued for that user, not later than the most recent
\* one; the refresh flow accepts no token but the stored one.
SingleStoredTokenState ==
    \A i \in UserIds :
        /\ \A t \in users[i].refresh_token :
              /\ HasType(t, "refresh")
              /\ t.sub = users[i].username
              /\ \E l \in lastIssued[users[i].username] : t.exp <= l.exp
        /\ \A t \in HandedOut \cup lastIssued[users[i].username] :
              (~verify_refresh_token(t).raises /\ i \in verify_refresh_token(t).user)
                  => users[i].refresh_token = {t}

\* C5, amended, as step: the stored refresh_token of a row changes only in
\* the commit of a login or refresh for that row, to the refresh token that
\* request returns.
SingleStoredTokenStep ==
    \A i \in UserIds :
        users'[i].refresh_token # users[i].refresh_token =>
            \E p \in Workers :
                /\ req[p].pc \in {"login_commit", "refresh_commit"}
                /\ req[p].user = i
                /\ req'[p].pc = "done" /\ req'[p].status = 200
                /\ users'[i].refresh_token = {req'[p].ret.refresh_token}
                /\ req'[p].ret.refresh_token = req[p].refresh_token

\* C5, amended: under any interleaving of login and refresh requests of one
\* user, the stored refresh_token is absent or is the refresh token of the
\* login or refresh that committed last, which need not be the one issued
\* last; at most one refresh token per user is accepted at any time.
SingleStoredToken == []SingleStoredTokenState /\ [][SingleStoredTokenStep]_vars

\* C5 witness: two requests of one user have interleaved and both have
\* answered; the token stored is not the one issued last.
SingleStoredTokenWitness ==
    \E i \in UserIds :
        /\ \A p \in Workers : req[p].pc = "done" /\ req[p].status = 200
                              /\ req[p].op \in {"login", "refresh"} /\ req[p].user = i
        /\ users[i].refresh_token # {}
        /\ users[i].refresh_token # lastIssued[users[i].username]

\* C6: a successful login answers 200 with access_token, refresh_token and
\* token_type "bearer", both tokens with subject = username, and has stored
\* the refresh token it returns; a refresh token that an earlier login of
\* the same user returned is rejected by the refresh flow afterwards
\* (relogin: the refresh exchanged a token that the login before it had
\* superseded).
SuccessfulLogin ==
    \A p \in Workers :
        /\ Done(p, "login") /\ req[p].status = 200
              => /\ DOMAIN req[p].body = {"access_token", "refresh_token", "token_type"}
                 /\ req[p].body.token_type = "bearer"
                 /\ req[p].body.access_token.sub = req[p].input.username
                 /\ req[p].body.refresh_token.sub = req[p].input.username
        /\ Done(p, "refresh") /\ req[p].status = 200 => ~req[p].relogin

\* the user of that name is absent or has another password
WrongCredentials(username, password) ==
    \A i \in UserIds :
        users[i].username = username
            => users[i].hashed_password # get_password_hash(password)

\* the response to a login with wrong credentials
InvalidCredentials(input) ==
    [pc |-> "done", op |-> "login", input |-> input, status |-> 401,
     detail |-> "Invalid username or password.", www_authenticate |-> TRUE]

\* C7, as step: a login with a username that does not exist, or with an
\* existing username and a wrong password, is answered with one and the same
\* response, and changes nothing.
CredentialOracleStep ==
    \A p \in Workers :
        Starts(p, "login")
        /\ WrongCredentials(req'[p].input.username, req'[p].input.password)
            => /\ req'[p] = InvalidCredentials(req'[p].input)
               /\ users' = users

\* C7: credential-oracle resistance: login with a username that does not
\* exist and login with an existing username but a wrong password return
\* the identical response (401, "Invalid username or password.", the same
\* headers), whatever the state of the existing user.
CredentialOracle == [][CredentialOracleStep]_vars

\* the user of that name exists and verifying this password against the
\* stored hash raises
VerificationRaises(username, password) ==
    \E i \in UserIds :
        /\ users[i].username = username
        /\ verify_password_raises(password, users[i].hashed_password)

\* C18, as step: a login whose password verification raises is answered as
\* a login with a wrong password, and changes nothing.
VerificationFailureStep ==
    \A p \in Workers :
        Starts(p, "login")
        /\ VerificationRaises(req'[p].input.username, req'[p].input.password)
            => /\ req'[p] = InvalidCredentials(req'[p].input)
               /\ users' = users

\* C18: login never surfaces a password-hash verification failure as
\* anything but Unauthorized: when verifying the password against the stored
\* hash raises instead of returning false, login answers 401 exactly as for
\* a wrong password and issues no tokens.
VerificationFailure == [][VerificationFailureStep]_vars

\* the user of that name exists, has this password and is not confirmed
UnconfirmedWithPassword(username, password) ==
    \E i \in UserIds :
        /\ users[i].username = username
        /\ users[i].hashed_password = get_password_hash(password)
        /\ ~users[i].confirmed

\* C8, as step: a login with the right password for an unconfirmed user is
\* answered 401 "Email not confirmed...", carries no token and leaves the
\* directory as it was.
UnconfirmedLoginStep ==
    \A p \in Workers :
        Starts(p, "login")
        /\ UnconfirmedWithPassword(req'[p].input.username, req'[p].input.password)
            => /\ req'[p] = Fail("login", req'[p].input, 401,
                       "Email not confirmed. Please confirm your email first.", FALSE)
               /\ users' = users

\* C8, as state predicate: a login that has issued tokens is a login of a
\* confirmed user.
UnconfirmedLoginState ==
    \A p \in Workers :
        req[p].pc = "login_commit" \/ (Done(p, "login") /\ req[p].status = 200)
            => users[req[p].user].confirmed

\* C8: login with correct credentials for a user whose e-mail is not
\* confirmed fails with 401 "Email not confirmed. Please confirm your email
\* first.", issues no tokens and leaves the stored refresh_token unchanged;
\* no user obtains tokens through login before being confirmed.
UnconfirmedLogin == []UnconfirmedLoginState /\ [][UnconfirmedLoginStep]_vars

\* C8 witness: an unconfirmed user has logged in with the right password and
\* was answered "Email not confirmed...".
UnconfirmedLoginWitness ==
    \E p \in Workers :
        /\ Done(p, "login")
        /\ UnconfirmedWithPassword(req[p].input.username, req[p].input.password)
        /\ req[p].status = 401
        /\ req[p].detail = "Email not confirmed. Please confirm your email first."

\* the step taken moves the request of slot p on from position pc
Continues(p, pc) == req[p].pc = pc /\ req'[p] # req[p]

\* the snapshot of a directory row, field by field
IsSnapshotOf(value, u) ==
    /\ DOMAIN value = {"id", "username", "email", "avatar", "role"}
    /\ value.id = u.id /\ value.username = u.username /\ value.email = u.email
    /\ value.avatar = u.avatar /\ value.role = u.role

\* C9, the hit: with a valid access token and an entry under the subject,
\* the cached snapshot is returned at once, the directory is not queried and
\* the cache stays as it is; without an entry the directory is queried next.
CacheAsideLookupStep ==
    \A p \in Workers :
        Starts(p, "get_current_user") /\ HasType(req'[p].input, "access")
        /\ jwt_decode(req'[p].input) # {}
            => /\ cache' = cache
               /\ IF cache[req'[p].input.sub] # {}
                  THEN /\ req'[p].pc = "done" /\ req'[p].status = 200
                       /\ ~req'[p].queried
                       /\ \E e \in cache[req'[p].input.sub] : req'[p].user = e.value
                  ELSE /\ req'[p].pc = "gcu_db"
                       /\ req'[p].username = req'[p].input.sub

\* C9, the miss: the directory is queried by username; an absent user is
\* answered 401 and nothing is written; a present one is written as the
\* snapshot {id, username, email, avatar, role} under the subject, to expire
\* REDIS_TTL from now, and is returned.
CacheAsideMissStep ==
    \A p \in Workers :
        /\ Continues(p, "gcu_db") =>
              /\ cache' = cache
              /\ IF \E i \in UserIds : users[i].username = req[p].username
                 THEN /\ req'[p].pc = "gcu_set"
                      /\ \E i \in UserIds : /\ users[i].username = req[p].username
                                            /\ req'[p].user = users[i]
                 ELSE IsCredentialsException(req'[p])
        /\ Continues(p, "gcu_set") =>
              /\ req'[p].pc = "done" /\ req'[p].status = 200 /\ req'[p].queried
              /\ req'[p].user = req[p].user
              /\ \E e \in cache'[req[p].username] :
                    /\ cache'[req[p].username] = {e}
                    /\ IsSnapshotOf(e.value, req[p].user)
                    /\ e.expires_at = now + REDIS_TTL
              /\ \A n \in Names \ {req[p].username} : cache'[n] = cache[n]

\* C9: get_current_user is cache-aside: with a valid access token a hit
\* under the subject returns the cached snapshot without querying the
\* directory; a miss queries the directory by username, answers 401 without
\* writing the cache if the user is absent, and otherwise writes the
\* snapshot {id, username, email, avatar, role} under the subject with the
\* configured TTL and returns that user.
CacheAside == [][CacheAsideLookupStep /\ CacheAsideMissStep]_vars

\* C9 witness: one resolution has missed, queried the directory and written
\* the entry, and another has been answered from that entry.
CacheAsideWitness ==
    \E p, q \in Workers :
        /\ Done(p, "get_current_user") /\ req[p].status = 200 /\ req[p].queried
        /\ Done(q, "get_current_user") /\ req[q].status = 200 /\ ~req[q].queried
        /\ \E e \in cache[req[p].user.username] : req[q].user = e.value

\* the entry under n, if any, is still live after the step
LiveAfter(n) == \E e \in cache[n] : e.expires_at > now'

\* C10, as worded: no step evicts or rewrites a live entry, and a resolution
\* answered while an entry for its user is live shows the role of that
\* entry, not a role the directory took on later.
CoherenceBoundaryStep ==
    /\ \A n \in Names : LiveAfter(n) => cache'[n] = cache[n]
    /\ \A p \in Workers :
          req'[p] # req[p] /\ req'[p].pc = "done" /\ req'[p].op = "get_current_user"
          /\ req'[p].status = 200
              => \A e \in cache[req'[p].user.username] :
                    req'[p].user.role = e.value.role

\* C10, as worded, over all steps
CoherenceBoundary == [][CoherenceBoundaryStep]_vars

\* C10, amended, for a resolution that hits: it shows the role of the entry,
\* whatever the directory says, and so does the admin gate.
StaleWhileLiveStep ==
    \A p \in Workers :
        Starts(p, "get_current_user") /\ req'[p].pc = "done" /\ req'[p].status = 200
            => \E e \in cache[req'[p].input.sub] :
                  /\ req'[p].user.role = e.value.role
                  /\ (get_current_admin_user(req'[p].user).status = 200)
                        = (e.value.role = "ADMIN")

\* C10, amended, for the entries: an entry is dropped only by the clock and
\* only once its TTL has elapsed; it is written only by the cache write of a
\* resolution that had missed, with the row that resolution read; a
\* resolution that reads the directory reads the role of that moment.
EntryLifetimeStep ==
    /\ \A n \in Names :
          cache'[n] # cache[n] =>
              \/ /\ now' > now /\ cache'[n] = {} /\ ~LiveAfter(n)
              \/ \E p \in Workers :
                    /\ Continues(p, "gcu_set") /\ req[p].username = n
                    /\ \E e \in cache'[n] : IsSnapshotOf(e.value, req[p].user)
    /\ \A p \in Workers :
          Continues(p, "gcu_db") /\ req'[p].pc = "gcu_set"
              => \E i \in UserIds : /\ users[i].username = req[p].username
                                    /\ req'[p].user.role = users[i].role

\* C10, amended: while an entry for U is live, a resolution that hits it
\* shows the role cached in it, and so does the admin gate, whatever role
\* the directory holds; a resolution after the entry has expired reads the
\* directory's role; the service never evicts a live entry, and rewrites one
\* only by the cache write of a concurrent resolution that had missed
\* before the entry was written.
StaleWhileLive == [][StaleWhileLiveStep /\ EntryLifetimeStep]_vars

\* C10 witness: a resolution was answered from a live entry with a role the
\* directory no longer holds.
StaleWhileLiveWitness ==
    \E p \in Workers, i \in UserIds :
        /\ Done(p, "get_current_user") /\ req[p].status = 200 /\ ~req[p].queried
        /\ users[i].username = req[p].user.username
        /\ users[i].role # req[p].user.role
        /\ \E e \in cache[req[p].user.username] :
              e.value.role = req[p].user.role /\ e.expires_at > now

\* the step taken is the avatar update that follows the resolution of the
\* identity shown in slot p
UpdatesAvatar(p) ==
    /\ req[p].pc = "done" /\ req[p].op = "get_current_user" /\ req[p].status = 200
    /\ req'[p].pc = "done" /\ req'[p].op = "update_avatar"

\* the 403 of get_current_admin_user
Forbidden(input) ==
    Fail("update_avatar", input, 403, "Only admin users can access this endpoint",
         FALSE)

\* C11, as step: the gate fails with 403 for every identity whose role is
\* not ADMIN, the role None included; an avatar update for an identity that
\* is not ADMIN is answered with that 403 and changes no user; an avatar
\* changes only in an avatar update for an identity with role ADMIN.
AdminGateStep ==
    /\ \A n \in Names, r \in (UserRole \cup {NoRole}) \ {"ADMIN"} :
           get_current_admin_user([id |-> 1, username |-> n, email |-> n,
                                   avatar |-> <<"gravatar", n>>, role |-> r])
               = [status |-> 403,
                  detail |-> "Only admin users can access this endpoint"]
    /\ \A p \in Workers :
           UpdatesAvatar(p) /\ req[p].user.role # "ADMIN"
               => /\ req'[p] = Forbidden(req[p].input)
                  /\ users' = users
    /\ (\E i \in UserIds : users'[i].avatar # users[i].avatar)
           => \E p \in Workers : UpdatesAvatar(p) /\ req[p].user.role = "ADMIN"

\* C11: admin gate: get_current_admin_user fails with 403 "Only admin users
\* can access this endpoint" for every resolved identity whose role is not
\* ADMIN (including a cached snapshot with no role), so the avatar update
\* never changes any user's avatar on behalf of a non-admin identity.
AdminGate == [][AdminGateStep]_vars

\* C11 witness: an avatar update for a resolved identity with role USER was
\* answered 403, and the avatar is the one set at registration.
AdminGateWitness ==
    \E p \in Workers :
        /\ Done(p, "update_avatar")
        /\ req[p].status = 403
        /\ req[p].detail = "Only admin users can access this endpoint"
        /\ \A i \in UserIds : users[i].avatar = <<"gravatar", users[i].email>>

\* token decodes now and is an e-mail action token for the e-mail of user i
ValidEmailTokenFor(token, i) ==
    /\ IsEmailToken(token)
    /\ jwt_decode(token) # {}
    /\ token.sub = users[i].email

\* C12, as step: a confirmation with a valid token for an existing user
\* answers 200 "Email confirmed successfully" and sets confirmed when the
\* user was not confirmed, and answers 200 "Email already confirmed" and
\* changes nothing when the user was; a confirmed user stays confirmed.
IdempotentConfirmationStep ==
    /\ \A p \in Workers, i \in UserIds :
           Starts(p, "confirm_email") /\ ValidEmailTokenFor(req'[p].input, i)
               => IF users[i].confirmed
                  THEN /\ req'[p] = Ok("confirm_email", req'[p].input, 200,
                                      [message |-> "Email already confirmed"])
                       /\ users' = users
                  ELSE /\ req'[p] = Ok("confirm_email", req'[p].input, 200,
                                      [message |-> "Email confirmed successfully"])
                       /\ users' = [users EXCEPT ![i].confirmed = TRUE]
    /\ \A i \in UserIds : users[i].confirmed => users'[i].confirmed

\* C12: idempotent confirmation: confirm-email with a valid email-action
\* token for an existing user sets confirmed = true the first time ("Email
\* confirmed successfully"); every further confirmation of an
\* already-confirmed email returns 200 {"message": "Email already
\* confirmed"}, never an error, and changes no user state.
IdempotentConfirmation == [][IdempotentConfirmationStep]_vars

\* C12 witness: a second confirmation of a confirmed e-mail was answered
\* "Email already confirmed".
IdempotentConfirmationWitness ==
    \E p \in Workers, i \in UserIds :
        /\ Done(p, "confirm_email")
        /\ ValidEmailTokenFor(req[p].input, i)
        /\ users[i].confirmed
        /\ req[p].status = 200
        /\ req[p].body.message = "Email already confirmed"

\* C13, as step: a password-reset request for an e-mail of no user answers
\* 404 and adds no task; for the e-mail of a user it answers 200 and adds
\* one task, send_reset_password_email to that user with an e-mail token
\* made in this request for the user's e-mail; the table is unchanged.
ResetRequestStep ==
    \A p \in Workers :
        Starts(p, "request_password_reset")
            => /\ users' = users
               /\ IF \A i \in UserIds : users[i].email # req'[p].input
                  THEN req'[p] = Fail("request_password_reset", req'[p].input, 404,
                                      "User with this email does not exist.", FALSE)
                  ELSE /\ req'[p].status = 200
                       /\ req'[p].body = [message |-> "Password reset email has been sent."]
                       /\ Len(req'[p].tasks) = 1
                       /\ req'[p].tasks[1].task = "send_reset_password_email"
                       /\ req'[p].tasks[1].email = req'[p].input
                       /\ IsEmailToken(req'[p].tasks[1].token)
                       /\ req'[p].tasks[1].token.sub = req'[p].input
                       /\ req'[p].tasks[1].token.iat = now
                       /\ jwt_decode(req'[p].tasks[1].token) # {}

\* C13: password-reset request: for an email with no user the endpoint
\* returns 404 and schedules no email; for an email of an existing user it
\* returns 200 and schedules the reset-email collaborator exactly once, with
\* an email-action token issued during that request whose subject is the
\* user's email; in both cases no user record is modified.
ResetRequest == [][ResetRequestStep]_vars

\* C13 witness: a reset request for the e-mail of a user whose username is
\* another string was answered 200 with one reset e-mail scheduled.
ResetRequestWitness ==
    \E p \in Workers, i \in UserIds :
        /\ Done(p, "request_password_reset")
        /\ req[p].status = 200
        /\ users[i].email = req[p].input
        /\ users[i].username # users[i].email
        /\ Len(req[p].tasks) = 1

\* the response and the table after a reset that generated new_password for
\* user i
ResetDone(p, i, new_password) ==
    /\ users' = [users EXCEPT ![i].hashed_password = get_password_hash(new_password)]
    /\ req'[p].status = 200
    /\ req'[p].body = [message |-> "Token is valid. Proceed with password reset.",
                       email |-> users[i].email]
    /\ req'[p].tasks = <<[task |-> "send_new_password_email",
                          email |-> users[i].email,
                          username |-> users[i].username,
                          new_password |-> new_password]>>

\* C14, as step: a reset with a token that does not decode answers 400,
\* one with a decodable token for an e-mail of no user answers 404, both
\* without a write and without a task; otherwise the user's hashed_password
\* becomes the hash of the generated password, that password is mailed
\* once, and the body is the message and the e-mail only.
ResetConsumptionStep ==
    \A p \in Workers :
        Starts(p, "reset_password")
            => IF jwt_decode(req'[p].input) = {}
               THEN /\ req'[p] = Fail("reset_password", req'[p].input, 400,
                                      "Invalid or expired token.", FALSE)
                    /\ users' = users
               ELSE IF \A i \in UserIds : users[i].email # req'[p].input.sub
               THEN /\ req'[p] = Fail("reset_password", req'[p].input, 404,
                                      "User not found.", FALSE)
                    /\ users' = users
               ELSE \E i \in UserIds, new_password \in Passwords :
                        /\ users[i].email = req'[p].input.sub
                        /\ ResetDone(p, i, new_password)

\* C14: password-reset consumption: an undecodable or expired token yields
\* 400 "Invalid or expired token." and a decodable token whose email has no
\* user yields 404 "User not found.", in both cases with no password change
\* and no email; on success the user's hashed_password is replaced by the
\* hash of a newly generated password, the new-password email is scheduled
\* exactly once, and the HTTP response contains only the message and the
\* email, never the plaintext password.
ResetConsumption == [][ResetConsumptionStep]_vars

\* C14 witness: a reset succeeded and the stored hash is the hash of the
\* password that was mailed, which is not the one chosen at registration.
ResetConsumptionWitness ==
    \E p \in Workers, i \in UserIds :
        /\ Done(p, "reset_password")
        /\ req[p].status = 200
        /\ users[i].email = req[p].body.email
        /\ Len(req[p].tasks) = 1
        /\ users[i].hashed_password = get_password_hash(req[p].tasks[1].new_password)
        /\ req[p].tasks[1].new_password \notin RegisterPasswords

\* C15: registration uniqueness: in every reachable state no two users
\* share a username or an email, and every registration has been answered
\* 409 (the name or the e-mail was taken; nothing created) or 201 (the user
\* was created), also when two registrations with the same username or
\* email run concurrently.
RegistrationUniqueness ==
    /\ \A i \in UserIds, j \in UserIds :
           i # j => /\ users[i].username # users[j].username
                    /\ users[i].email # users[j].email
    /\ \A p \in Workers :
           Done(p, "register")
               => \/ /\ req[p].status = 409
                     /\ req[p].detail \in {"A user with this email already exists.",
                                            "A user with this username already exists."}
                  \/ /\ req[p].status = 201
                     /\ \E i \in UserIds : req[p].body = UserResponse(users[i])

\* C16: every successful call of the refresh flow returns a token pair
\* different from the one it was exchanged for: the refresh token the
\* handler returns is not the refresh token presented, whatever the time
\* elapsed between issuing the presented token and the refresh call.
FreshTokenPair ==
    \A p \in Workers :
        Done(p, "refresh") /\ req[p].status = 200
            => req[p].ret.refresh_token # req[p].input

\* the 401 of credentials_exception, with its WWW-Authenticate header
CredentialsException(op, input) ==
    Fail(op, input, 401, "Could not validate credentials", TRUE)

\* C17: token-failure uniformity: get_current_user answers every
\* validation failure with 401 "Could not validate credentials" and the
\* header WWW-Authenticate: Bearer, and the refresh endpoint answers every
\* failure (undecodable, expired, wrong type, superseded or never-stored
\* token) with one and the same response, the one its verification raises.
TokenFailureUniformity ==
    \A p \in Workers :
        /\ Done(p, "get_current_user") /\ req[p].status # 200
               => req[p] = CredentialsException("get_current_user", req[p].input)
        /\ Done(p, "refresh") /\ req[p].status # 200
               => req[p] = CredentialsException("refresh", req[p].input)

\* C19, as step: request-email answers 404 and adds no task for an e-mail
\* of no user, 200 "Email already confirmed" and no task for a confirmed
\* user, 200 "Check your email for confirmation link." and one send_email
\* task for an unconfirmed user; the table is unchanged.
RequestEmailStep ==
    \A p \in Workers :
        Starts(p, "request_email")
            => /\ users' = users
               /\ IF \A i \in UserIds : users[i].email # req'[p].input
                  THEN req'[p] = Fail("request_email", req'[p].input, 404,
                                      "User with this email does not exist.", FALSE)
                  ELSE \E i \in UserIds :
                           /\ users[i].email = req'[p].input
                           /\ IF users[i].confirmed
                              THEN req'[p] = OkTasks("request_email", req'[p].input, 200,
                                                 [message |-> "Email already confirmed"],
                                                 <<>>)
                              ELSE req'[p] = OkTasks("request_email", req'[p].input, 200,
                                                 [message |->
                                                     "Check your email for confirmation link."],
                                                 <<[task |-> "send_email",
                                                    email |-> users[i].email,
                                                    username |-> users[i].username]>>)

\* C19: request-email: for an email with no user the endpoint returns 404
\* and schedules no email; for an already-confirmed user it returns 200
\* "Email already confirmed" and schedules no email; for an existing
\* unconfirmed user it returns 200 "Check your email for confirmation
\* link." and schedules the confirmation email exactly once; it never
\* changes the user's confirmed flag.
RequestEmail == [][RequestEmailStep]_vars

\* C19 witness: request-email for a confirmed user was answered "Email
\* already confirmed" with no e-mail scheduled.
RequestEmailWitness ==
    \E p \in Workers, i \in UserIds :
        /\ Done(p, "request_email")
        /\ users[i].email = req[p].input
        /\ users[i].confirmed
        /\ req[p].body.message = "Email already confirmed"
        /\ req[p].tasks = <<>>

\* C20, as step: a confirmation with a token that does not decode answers
\* 422 "Invalid token for email verification", one with a decodable token
\* for an e-mail of no user answers 400 "Verification error", and neither
\* changes the table.
ConfirmationErrorsStep ==
    \A p \in Workers :
        Starts(p, "confirm_email")
            => IF jwt_decode(req'[p].input) = {}
               THEN /\ req'[p] = Fail("confirm_email", req'[p].input, 422,
                                      "Invalid token for email verification", FALSE)
                    /\ users' = users
               ELSE (\A i \in UserIds : users[i].email # req'[p].input.sub)
                       => /\ req'[p] = Fail("confirm_email", req'[p].input, 400,
                                            "Verification error", FALSE)
                          /\ users' = users

\* C20: confirm-email error outcomes: a token that cannot be decoded
\* (malformed, bad signature, expired) yields 422 "Invalid token for email
\* verification", and a decodable token whose email has no user yields 400
\* "Verification error"; in both cases no user's confirmed flag changes.
ConfirmationErrors == [][ConfirmationErrorsStep]_vars

\* C20 witness: an expired token for the e-mail of an unconfirmed user was
\* answered 422 and the user is still unconfirmed.
ConfirmationErrorsWitness ==
    \E p \in Workers, i \in UserIds :
        /\ Done(p, "confirm_email")
        /\ req[p].input.signed /\ req[p].input.exp < now
        /\ req[p].status = 422
        /\ users[i].email = req[p].input.sub
        /\ ~users[i].confirmed

\* C21: token expiry arithmetic: every issued token carries exp = issue
\* time + TTL and is accepted only while the current time has not passed
\* exp; with the default configuration the access-token TTL is 3600 s, the
\* refresh-token TTL is 7 days (604800 s) and the e-mail action TTL is 7
\* days, so a refresh token issued together with an access token outlives
\* it.
TokenExpiry ==
    /\ \A n \in Names :
           /\ create_access_token(n).exp = now + 3600
           /\ create_refresh_token(n).exp = now + 604800
           /\ create_email_token(n).exp = now + 604800
           /\ create_refresh_token(n).exp > create_access_token(n).exp
    /\ \A t \in Tokens : jwt_decode(t) # {} => now <= t.exp
    /\ \A p \in Workers :
           Done(p, "login") /\ req[p].status = 200
               => req[p].ret.refresh_token.exp - req[p].ret.access_token.exp
                      = 604800 - 3600

\* C24: concurrent refresh race: when two refresh requests that presented
\* the same stored refresh token R have both answered 200, each returned
\* its own token pair, the stored refresh_token equals exactly one of the
\* two returned refresh tokens (so the other one is rejected at its next
\* refresh), and R itself is no longer accepted.
ConcurrentRefresh ==
    \A p \in Workers, q \in Workers :
        /\ p # q
        /\ Done(p, "refresh") /\ req[p].status = 200
        /\ Done(q, "refresh") /\ req[q].status = 200
        /\ req[p].input = req[q].input
        => LET stored == users[req[p].user].refresh_token
           IN  /\ req[p].ret.refresh_token # req[q].ret.refresh_token
               /\ stored \in {{req[p].ret.refresh_token}, {req[q].ret.refresh_token}}
               /\ stored # {req[p].input}

\* slot p holds a resolution that missed the cache and has not returned
Populating(p) == req[p].pc \in {"gcu_db", "gcu_set"}

\* C25, as step, while another resolution of the same username is in
\* flight: the next step of a resolution that missed is enabled, it leaves
\* the other resolutions as they are, a directory read of an existing user
\* goes on to the cache write, and a cache write returns the user it read
\* and leaves under the key exactly the snapshot of that user, whatever the
\* directory holds by then.
ConcurrentPopulationStep ==
    \A p \in Workers, q \in Workers :
        p # q /\ Populating(p) /\ Populating(q) /\ req[p].username = req[q].username
            => /\ req[p].pc = "gcu_db" => ENABLED get_current_user_db(p)
               /\ req[p].pc = "gcu_set" => ENABLED get_current_user_set(p)
               /\ req'[p] # req[p] => req'[q] = req[q]
               /\ Continues(p, "gcu_db")
                  /\ (\E i \in UserIds : users[i].username = req[p].username)
                      => /\ req'[p].pc = "gcu_set"
                         /\ req'[p].user = users[req'[p].user.id]
               /\ Continues(p, "gcu_set")
                      => /\ req'[p].pc = "done" /\ req'[p].status = 200
                         /\ req'[p].user = req[p].user
                         /\ \E e \in cache'[req[p].username] :
                               /\ cache'[req[p].username] = {e}
                               /\ IsSnapshotOf(e.value, req[p].user)

\* C25: concurrent cache population: when several get_current_user requests
\* for the same username all miss the cache and interleave at their
\* directory-read and cache-write steps, every one of them completes and
\* returns a user, no request blocks on another, and the resulting cache
\* entry is the snapshot written by the last writer, which equals the
\* directory state that writer read; if the directory changed between the
\* readers' reads, the surviving entry may be the older snapshot.
ConcurrentPopulation == [][ConcurrentPopulationStep]_vars

\* C25 witness: two resolutions of one username both missed and both
\* returned a user; the directory changed the role between their reads; the
\* one that read first wrote last, and the entry is its older snapshot.
ConcurrentPopulationWitness ==
    \E p \in Workers, q \in Workers :
        /\ Done(p, "get_current_user") /\ req[p].status = 200 /\ req[p].queried
        /\ Done(q, "get_current_user") /\ req[q].status = 200 /\ req[q].queried
        /\ req[p].user.username = req[q].user.username
        /\ req[q].user.role = users[req[q].user.id].role
        /\ req[p].user.role # users[req[p].user.id].role
        /\ \E e \in cache[req[p].user.username] : IsSnapshotOf(e.value, req[p].user)

\* C29, as step: a login for an existing unconfirmed user with a password
\* that is not the user's is answered with the credential error, and is
\* answered "Email not confirmed" only when the password is the user's.
PasswordBeforeConfirmationStep ==
    \A p \in Workers, i \in UserIds :
        Starts(p, "login")
        /\ users[i].username = req'[p].input.username
        /\ ~users[i].confirmed
            => /\ users[i].hashed_password # get_password_hash(req'[p].input.password)
                      => req'[p] = InvalidCredentials(req'[p].input)
               /\ req'[p].detail = "Email not confirmed. Please confirm your email first."
                      => users[i].hashed_password
                             = get_password_hash(req'[p].input.password)

\* C29: login checks the password before the confirmation flag: for an
\* existing unconfirmed user, login with a wrong password returns the
\* credential error "Invalid username or password.", and the "Email not
\* confirmed" response is returned only when the password is correct, so
\* the confirmation status of an account is never disclosed to a caller who
\* does not know its password.
PasswordBeforeConfirmation == [][PasswordBeforeConfirmationStep]_vars

\* the step taken is a call of op from slot p
Calls(p, op) == req'[p] # req[p] /\ req'[p].op = op

\* C22, as step: get_redis raises "Redis is not initialized." when the
\* module holds no client and returns the module's client otherwise;
\* close_redis raises nothing, changes nothing when the module holds no
\* client, and otherwise closes that client, which was never closed before,
\* once, and leaves the module without a client.
RedisLifecycleStep ==
    \A p \in Workers :
        /\ Calls(p, "get_redis")
               => IF redis_client = None
                  THEN /\ req'[p].raised = {RuntimeError("Redis is not initialized.")}
                       /\ req'[p].ret = {}
                  ELSE /\ req'[p].raised = {}
                       /\ req'[p].ret = {redis_client}
        /\ Calls(p, "close_redis")
               => /\ req'[p].raised = {}
                  /\ redis_client' = None
                  /\ IF redis_client = None
                     THEN UNCHANGED redisVars
                     ELSE /\ clients[redis_client].closed = 0
                          /\ clients' = [clients EXCEPT ![redis_client].closed = 1]

\* C22: Redis client lifecycle: get_redis raises RuntimeError 'Redis is not
\* initialized.' in every state where the client is not initialized (before
\* init_redis and after close_redis) and returns the shared client
\* otherwise; close_redis on an uninitialized client does nothing and
\* raises nothing; after close_redis on an initialized client the client is
\* closed exactly once and the state is uninitialized again, so close_redis
\* is idempotent.
RedisLifecycle == [][RedisLifecycleStep]_vars

\* C22 witness: a client was initialized and closed once, a second
\* close_redis has returned, and the get_redis after it raised.
RedisLifecycleWitness ==
    /\ Done(1, "close_redis") /\ req[1].raised = {}
    /\ Done(2, "get_redis")
    /\ req[2].raised = {RuntimeError("Redis is not initialized.")}
    /\ redis_client = None
    /\ app_state_redis_client # None
    /\ clients[app_state_redis_client].closed = 1

\* C30, as step: a call of init_redis that raises leaves the module without
\* a client, so that a following get_redis raises, and does not set
\* app.state.redis_client.
InitFailureStep ==
    \A p \in Workers :
        Calls(p, "init_redis") /\ req'[p].raised # {}
            => /\ req'[p].raised = {RuntimeError("Redis connection error")}
               /\ redis_client' = None
               /\ app_state_redis_client' = app_state_redis_client

\* C30: whenever init_redis raises RuntimeError because of a connection
\* error (creating the client or the ping fails), a following get_redis
\* raises RuntimeError 'Redis is not initialized.' and
\* app.state.redis_client is not set.
InitFailure == [][InitFailureStep]_vars

\* the handlers that take a contact id
ByContactId == {"read_contact", "update_contact", "remove_contact"}

\* contact_id is the id of a contact of the user
Owns(user, contact_id) ==
    \E c \in contacts : c.id = contact_id /\ c.user_id = user.id

\* C23, as step. A request by contact id of a resolved identity: when the
\* id is not the id of a contact of that identity, it is answered 404
\* "Contact with ID <id> not found" and the table is unchanged; when it is,
\* a read returns that contact and an update or delete goes on. Every step
\* of a contact request leaves the contacts of the other users as they are
\* and shows in its response, if any, a contact of its identity. An update
\* answers 200, and a delete that found the contact removes a row, only
\* for a contact of its identity. An id that was handed out and is no
\* longer in the table never comes back.
ContactScopeStep ==
    /\ \A p \in Workers :
          req'[p] # req[p] /\ req'[p].op \in ByContactId
              => LET r == req'[p]
                     others(table) == {c \in table : c.user_id # r.user.id}
                 IN  /\ others(contacts') = others(contacts)
                     /\ "body" \in DOMAIN r
                            => \E c \in contacts' :
                                  /\ c.user_id = r.user.id
                                  /\ c.id = r.input.contact_id
                                  /\ r.body = ContactResponse(c)
                     /\ contacts' # contacts => Owns(r.user, r.input.contact_id)
                     /\ Resolved(p)
                            => /\ r.user = req[p].user
                               /\ contacts' = contacts
                               /\ IF Owns(r.user, r.input.contact_id)
                                  THEN \/ r.pc # "done"
                                       \/ r.op = "read_contact" /\ r.status = 200
                                  ELSE /\ r.pc = "done" /\ r.status = 404
                                       /\ r.detail = ContactNotFound(r.input.contact_id)
                     /\ r.pc = "done" /\ r.op = "remove_contact" /\ r.status = 204
                            => \A c \in contacts' : c.id # r.input.contact_id
    /\ \A id \in 1..contact_id_seq :
          (\A c \in contacts : c.id # id) => (\A c \in contacts' : c.id # id)

\* C23: contacts are scoped per user: read, update and delete of a contact
\* id succeed only for a contact owned by the resolved identity and answer
\* 404 'Contact with ID <id> not found' otherwise, never reading or
\* modifying another user's contact; after a successful delete (204) every
\* further read, update or delete of that id by the same user answers 404.
ContactScope == [][ContactScopeStep]_vars

\* C23 witness: a user's delete of its contact was answered 204, the same
\* user's read of that id is answered 404, and another user's update of
\* that user's remaining contact is answered 404 and left it as it was.
ContactScopeWitness ==
    /\ Done(1, "remove_contact") /\ req[1].status = 204
    /\ req[1].user.id = 1 /\ req[1].input.contact_id = 1
    /\ \A c \in contacts : c.id # 1
    /\ [id |-> 2, email |-> "y", user_id |-> 2] \in contacts
    /\ Done(2, "update_contact") /\ req[2].status = 404
    /\ req[2].user.id = 1 /\ req[2].input = [contact_id |-> 2, email |-> "x"]
    /\ req[2].detail = ContactNotFound(2)

\* C26, as step: a login or a refresh that is answered with anything but
\* 200 leaves the user table and the identity cache as they were.
FailedSessionStep ==
    \A p \in Workers :
        /\ Starts(p, "login") \/ Starts(p, "refresh")
        /\ req'[p].pc = "done" /\ req'[p].status # 200
        => users' = users /\ cache' = cache

\* C26: failed login (unknown user, wrong password, unconfirmed) and failed
\* refresh leave every user's stored refresh_token, hashed_password,
\* confirmed flag and the identity cache unchanged.
FailedSession == [][FailedSessionStep]_vars

\* C26 witness: a login with a password that is not the user's was answered
\* 401 while the user has a stored refresh token and a cache entry, and
\* that token is the one the login shown in the other slot returned.
FailedSessionWitness ==
    /\ Done(1, "login") /\ req[1].status = 401
    /\ req[1].input.username = "a"
    /\ Done(2, "login") /\ req[2].status = 200
    /\ users[1].refresh_token = {req[2].ret.refresh_token}
    /\ users[1].hashed_password # get_password_hash(req[1].input.password)
    /\ cache["a"] # {}

\* C27, as step. A resolution of a signed access token that has not
\* expired, for a username the directory holds, is not refused: it returns
\* the cached identity or goes on to the directory read, the read goes on
\* to the cache write and the write returns 200, whatever refresh token and
\* password hash are stored. A password reset that succeeds changes the
\* hashed_password of one row and nothing else in the table or the cache,
\* and what verify_refresh_token answers for each stored refresh token
\* stays the same.
AccessNotRevokedStep ==
    \A p \in Workers :
        /\ Starts(p, "get_current_user")
           /\ HasType(req'[p].input, "access")
           /\ now <= req'[p].input.exp
           /\ get_user_by_username(req'[p].input.sub, {}) # {}
               => \/ req'[p].pc = "gcu_db"
                  \/ req'[p].pc = "done" /\ req'[p].status = 200
        /\ Continues(p, "gcu_db") /\ get_user_by_username(req[p].username, {}) # {}
               => req'[p].pc = "gcu_set"
        /\ Continues(p, "gcu_set")
               => req'[p].pc = "done" /\ req'[p].status = 200
        /\ Starts(p, "reset_password") /\ req'[p].status = 200
               => /\ \E i \in UserIds :
                        users' = [users EXCEPT ![i].hashed_password =
                                                   users'[i].hashed_password]
                  /\ cache' = cache
                  /\ \A i \in UserIds : \A t \in users[i].refresh_token :
                        /\ verify_refresh_token(t)' = verify_refresh_token(t)
                        /\ ~verify_refresh_token(t).raises
                               => verify_refresh_token(t)'.user = {i}

\* C27: access tokens are never revoked by later session events: an access
\* token stays accepted by get_current_user until its own exp, also after
\* later logins, refresh rotations and password resets of the same user; a
\* password reset changes only hashed_password and leaves the stored
\* refresh_token valid.
AccessNotRevoked == [][AccessNotRevokedStep]_vars

\* C27 witness: the access token of the login shown in slot 2 is resolved
\* from the directory, seconds after it was issued, after the password it
\* was obtained with was replaced by a reset and the refresh token stored
\* with it was replaced by a later login or rotation.
AccessNotRevokedWitness ==
    /\ Done(2, "login") /\ req[2].status = 200
    /\ Done(1, "get_current_user") /\ req[1].status = 200 /\ req[1].queried
    /\ req[1].input = req[2].ret.access_token
    /\ req[1].input.exp < now + JWT_EXPIRATION_SECONDS
    /\ users[1].hashed_password # get_password_hash(req[2].input.password)
    /\ users[1].refresh_token # {}
    /\ users[1].refresh_token # {req[2].ret.refresh_token}

\* C28, as step. The token of the reset link and the token of the
\* confirmation link are the same function of the e-mail and the second.
\* A reset with a token that decodes, whose sub is the e-mail of a user,
\* replaces the password and schedules the new-password e-mail, and a
\* confirmation with such a token answers 200 and leaves the user
\* confirmed, whichever link the token came from and however often it was
\* consumed before.
EmailTokenReuseStep ==
    /\ \A i \in UserIds : reset_token(users[i]) = send_email_token(users[i].email)
    /\ \A p \in Workers, i \in UserIds :
          /\ Starts(p, "reset_password") /\ ValidEmailTokenFor(req'[p].input, i)
                 => \E new_password \in Passwords : ResetDone(p, i, new_password)
          /\ Starts(p, "confirm_email") /\ ValidEmailTokenFor(req'[p].input, i)
                 => req'[p].status = 200 /\ users'[i].confirmed

\* C28: email-action tokens are neither single-use nor purpose-bound: until
\* its exp, the same token can be consumed by reset-password any number of
\* times, each time replacing the password and scheduling a new-password
\* email; and a confirmation token is accepted by reset-password (and a
\* reset token by confirm-email) for the same email.
EmailTokenReuse == [][EmailTokenReuseStep]_vars

\* C28 witness: seconds after it was made, one token has confirmed the
\* e-mail in one slot and has reset the password in the other, and the
\* stored hash is that of the password the reset mailed.
EmailTokenReuseWitness ==
    /\ Done(1, "confirm_email") /\ req[1].status = 200
    /\ req[1].body = [message |-> "Email confirmed successfully"]
    /\ Done(2, "reset_password") /\ req[2].status = 200
    /\ req[2].input = req[1].input
    /\ req[2].input.iat < now
    /\ users[1].confirmed
    /\ users[1].hashed_password = get_password_hash(req[2].tasks[1].new_password)
    /\ req[2].tasks[1].new_password \notin RegisterPasswords
====
